---- MODULE Spec2Model ----
(***************************************************************************)
(* Model of the Raysid protocol decoder and command encoder of             *)
(* src/src/raysid/ble_worker.py (class BleWorker).                         *)
(*                                                                         *)
(* Bytes are the integers 0..255 and a bytes object is a sequence of them. *)
(* Python indexes from 0 and TLA+ sequences from 1: At(s, i) is Python's   *)
(* s[i].  time.time() is modelled as an integer count of milliseconds, so  *)
(* the code's 0.5 s is 500.  A float quotient n / d is kept as the exact   *)
(* fraction <<n, d>>.                                                      *)
(***************************************************************************)
EXTENDS Integers, Sequences, FiniteSets, TLC

VARIABLES
    spectrum_buffer,             \* self._spectrum_buffer
    spectrum_expected_len,       \* self._spectrum_expected_len
    spectrum_buffer_start_time,  \* self._spectrum_buffer_start_time (ms)
    now,                         \* the wall clock read by time.time() (ms)
    chunk,                       \* the notification last delivered
    emitted,                     \* records emitted by the last handler call
    log,                         \* reassembly events logged by the last call
    parsed,                      \* frames the last call handed to _parse_frame
    raised,                      \* the last handler call ended in an exception
    feed,                        \* bytes of a scripted frame not yet delivered
    parts,                       \* chunks the scripted frame is still cut into
    orig,                        \* the scripted frame
    groups,                      \* the coding groups the scripted frame encodes
    received,                    \* all records emitted since the script began
    payload,                     \* the argument of _wrap_command
    packet,                      \* the result of _wrap_command
    ble_worker,                  \* MainWindow.ble_worker: 0 for None, or a worker
    connected,                   \* MainWindow.connected
    connect_btn,                 \* connect_btn.isEnabled()
    disconnect_btn,              \* disconnect_btn.isEnabled()
    current_tab,                 \* tabs.currentIndex()
    ping_timer,                  \* ping_timer.isActive()
    reconnect_attempts,          \* MainWindow._reconnect_attempts
    reconnect_timers,            \* pending QTimer.singleShot(_attempt_reconnect)
    tasks,                       \* coroutines scheduled by asyncio.ensure_future
    workers,                     \* the BleWorker objects created so far
    unix                         \* int(time.time())

vars == <<spectrum_buffer, spectrum_expected_len, spectrum_buffer_start_time,
          now, chunk, emitted, log, parsed, raised, feed, parts, orig,
          groups, received, payload, packet, ble_worker, connected,
          connect_btn, disconnect_btn, current_tab, ping_timer,
          reconnect_attempts, reconnect_timers, tasks, workers, unix>>

decoderVars == <<spectrum_buffer, spectrum_expected_len,
                 spectrum_buffer_start_time, now, chunk, emitted, log,
                 parsed, raised>>

scriptVars == <<feed, parts, orig, groups, received>>

commandVars == <<payload, packet>>

windowVars == <<ble_worker, connected, connect_btn, disconnect_btn,
                current_tab, ping_timer, reconnect_attempts,
                reconnect_timers>>

appVars == <<windowVars, tasks, workers, unix>>

protocolVars == <<decoderVars, scriptVars, commandVars>>

-----------------------------------------------------------------------------
(* Bytes and bit operations *)

At(s, i) == s[i + 1]

\* Python's s[a:b] for 0 <= a <= b <= len(s)
Slice(s, a, b) == SubSeq(s, a + 1, b)

Min(a, b) == IF a < b THEN a ELSE b

RECURSIVE BitXor(_, _)
BitXor(a, b) ==
    IF a = 0 THEN b
    ELSE IF b = 0 THEN a
    ELSE (((a % 2) + (b % 2)) % 2) + 2 * BitXor(a \div 2, b \div 2)

\* Step applied n times.  A loop "while cond: body" is Iterate of the step
\* "IF cond THEN body ELSE unchanged" over a bound on its iterations.  The
\* halving, and the binding of the state reached half way as the element of
\* a one-element set, keep the evaluation shallow on long inputs.
RECURSIVE Iterate(_, _, _)
Iterate(Step(_), n, s) ==
    IF n <= 0 THEN s
    ELSE IF n = 1 THEN Step(s)
    ELSE CHOOSE r \in {Iterate(Step, n - (n \div 2), mid) :
                          mid \in {Iterate(Step, n \div 2, s)}} : TRUE

\* n / float(d), kept exact
Quot(n, d) == <<n, d>>

-----------------------------------------------------------------------------
(* Checksum engine *)

\* One 32-bit word kept as two 16-bit halves, so that no intermediate value
\* exceeds the checker's integer range: [hi, lo] stands for hi * 65536 + lo.
Word32(b3, b2, b1, b0) == [hi |-> b3 * 256 + b2, lo |-> b1 * 256 + b0]

\* Mutant of Add32: the carry out of the high half is kept
Add32Unmasked(crc, w) ==
    LET lo == crc.lo + w.lo
        hi == crc.hi + w.hi + (lo \div 65536)
    IN  [hi |-> hi, lo |-> lo % 65536]

\* crc += w, reduced modulo 2^32 (the code masks once, at the end)
Add32(crc, w) ==
    LET lo == crc.lo + w.lo
        hi == crc.hi + w.hi + (lo \div 65536)
    IN  [hi |-> hi % 65536, lo |-> lo % 65536]

\* One pass of the while loop of _crc1; st = [i, crc]
Crc1Step(data, st) ==
    LET ln  == Len(data)
        i   == st.i
        rem == ln - i
    IN  IF ~(i < ln) THEN st
        ELSE IF rem >= 4 THEN
            [i   |-> i + 4,
             crc |-> Add32(st.crc, Word32(At(data, i + 3), At(data, i + 2),
                                          At(data, i + 1), At(data, i)))]
        ELSE IF rem = 3 THEN
            [i   |-> i + 3,
             crc |-> Add32(st.crc, Word32(0, At(data, i + 2),
                                          At(data, i + 1), At(data, i)))]
        ELSE IF rem = 2 THEN
            [i   |-> i + 2,
             crc |-> Add32(st.crc, Word32(0, 0, At(data, i + 1), At(data, i)))]
        ELSE
            [i   |-> i + 1,
             crc |-> Add32(st.crc, Word32(0, 0, 0, At(data, i)))]

Crc1(data) ==
    Iterate(LAMBDA st : Crc1Step(data, st), Len(data),
            [i |-> 0, crc |-> [hi |-> 0, lo |-> 0]]).crc

\* Mutant of ToBytes4Big: the least significant byte first
ToBytes4Little(crc) ==
    <<crc.lo % 256, crc.lo \div 256, crc.hi % 256, crc.hi \div 256>>

\* crc1.to_bytes(4, 'big')
ToBytes4Big(crc) ==
    <<crc.hi \div 256, crc.hi % 256, crc.lo \div 256, crc.lo % 256>>

\* for b in data: out ^= b; st = [i, out]
Crc2Step(data, st) ==
    IF st.i >= Len(data) THEN st
    ELSE [i |-> st.i + 1, out |-> BitXor(st.out, At(data, st.i))]

Crc2(data) ==
    Iterate(LAMBDA st : Crc2Step(data, st), Len(data),
            [i |-> 0, out |-> 0]).out % 256

\* One 3-byte big-endian word of _checksum3, the missing bytes left zero
Checksum3Word(data, i) ==
    LET length == Len(data)
    IN  (IF i < length THEN (At(data, i) % 256) * 65536 ELSE 0)
      + (IF i + 1 < length THEN (At(data, i + 1) % 256) * 256 ELSE 0)
      + (IF i + 2 < length THEN At(data, i + 2) % 256 ELSE 0)

\* for i in range(0, length, 3): out ^= value; st = [i, out]
Checksum3Step(data, st) ==
    IF st.i >= Len(data) THEN st
    ELSE [i |-> st.i + 3, out |-> BitXor(st.out, Checksum3Word(data, st.i))]

Checksum3(data) ==
    Iterate(LAMBDA st : Checksum3Step(data, st), (Len(data) + 2) \div 3,
            [i |-> 0, out |-> 0]).out % 16777216

\* Mutant of SpectrumExpected: the trailer read as a big-endian integer
SpectrumExpectedBigEndian(frame) ==
    LET n == Len(frame)
    IN  At(frame, n - 3) * 65536 + At(frame, n - 2) * 256 + At(frame, n - 1)

\* expected = (chk_bytes[2] << 16) | (chk_bytes[1] << 8) | chk_bytes[0]
SpectrumExpected(frame) ==
    LET n == Len(frame)
    IN  At(frame, n - 1) * 65536 + At(frame, n - 2) * 256 + At(frame, n - 3)

ValidateSpectrumChecksum(frame) ==
    IF Len(frame) < 6 THEN FALSE
    ELSE Checksum3(Slice(frame, 0, Len(frame) - 3)) = SpectrumExpected(frame)

\* Mutant of Calc2b: the low two bytes of the value, reversed
Calc2bLow(calculated) ==
    <<calculated % 256, (calculated \div 256) % 256>>

\* Mutant of Calc2b: the first two big-endian bytes, not reversed
Calc2bForward(calculated) ==
    <<calculated \div 65536, (calculated \div 256) % 256>>

\* calc_2b = calculated.to_bytes(3, 'big')[:2][::-1]
Calc2b(calculated) ==
    <<(calculated \div 256) % 256, calculated \div 65536>>

ValidateCpsChecksum2b(pkt) ==
    IF Len(pkt) < 7 THEN FALSE
    ELSE Calc2b(Checksum3(Slice(pkt, 1, Len(pkt) - 3)))
           = Slice(pkt, Len(pkt) - 4, Len(pkt) - 2)

-----------------------------------------------------------------------------
(* Command encoder *)

\* Mutant of WrapCommand: the trailing byte counts the bytes before it
WrapCommandShort(data) ==
    LET crc1  == Crc1(data)
        inner == <<238>> \o ToBytes4Big(crc1) \o data
        crc2  == Crc2(inner)
        pkt   == <<255, crc2>> \o inner
        size  == Len(pkt)
    IN  IF size > 255 THEN [raised |-> TRUE, bytes |-> <<>>]
        ELSE [raised |-> FALSE, bytes |-> pkt \o <<size>>]

\* bytes([size]) raises ValueError when size > 255: the result is then no
\* packet at all (raised), otherwise the finished frame.
WrapCommand(data) ==
    LET crc1  == Crc1(data)
        inner == <<238>> \o ToBytes4Big(crc1) \o data
        crc2  == Crc2(inner)
        pkt   == <<255, crc2>> \o inner
        size  == Len(pkt) + 1
    IN  IF size > 255 THEN [raised |-> TRUE, bytes |-> <<>>]
        ELSE [raised |-> FALSE, bytes |-> pkt \o <<size>>]

-----------------------------------------------------------------------------
(* Fixed-format parsers.  A parser's result is [raised, pkt]: pkt is <<>>   *)
(* for Python's None and <<record>> for a returned dict; raised is TRUE     *)
(* when the parser ends in an exception (an index out of range).            *)

None == [raised |-> FALSE, pkt |-> <<>>]

Raise == [raised |-> TRUE, pkt |-> <<>>]

Return(rec) == [raised |-> FALSE, pkt |-> <<rec>>]

SPECTRUM_TYPES == {48, 49, 50}

\* A Python int has no width; the values _unpack_value builds reach
\* 5535 * 10^10.  Such an int is kept as <<high, low>>, standing for
\* high * LimbBase + low with 0 <= low < LimbBase.
LimbBase == 10 ^ 7

\* The int n
PyInt(n) == <<n \div LimbBase, n % LimbBase>>

\* Mutant of TimesTen: the product is cut to its low limb
TimesTenCut(res) == <<0, (res[2] * 10) % LimbBase>>

\* res *= 10
TimesTen(res) ==
    <<res[1] * 10 + (res[2] * 10) \div LimbBase, (res[2] * 10) % LimbBase>>

\* for _ in range(mult10): res *= 10
RECURSIVE UnpackLoop(_, _)
UnpackLoop(res, n) == IF n = 0 THEN res ELSE UnpackLoop(TimesTen(res), n - 1)

\* mult10 = v // 6000; res = v % 6000
UnpackValue(v) == UnpackLoop(PyInt(v % 6000), v \div 6000)

\* The for loop of _parse_cps from iteration k on; acc = [cps, dose_rate],
\* each <<>> for None or <<value>>.
RECURSIVE CpsLoop(_, _, _, _)
CpsLoop(frame, sets, k, acc) ==
    LET idx_type   == k * 3 + 2
        idx_val_lo == k * 3 + 3
        idx_val_hi == k * 3 + 4
    IN  IF k >= sets \/ idx_val_hi >= Len(frame) THEN acc
        ELSE
            LET data_type == At(frame, idx_type) % 256
                raw_value == (At(frame, idx_val_hi) % 256) * 256
                               + (At(frame, idx_val_lo) % 256)
                unpacked  == UnpackValue(raw_value)
            IN  CpsLoop(frame, sets, k + 1,
                    IF data_type = 0
                        THEN [acc EXCEPT !.cps = <<Quot(unpacked, 600)>>]
                    ELSE IF data_type = 1
                        THEN [acc EXCEPT !.dose_rate = <<Quot(unpacked, 60000)>>]
                    ELSE acc)

\* Mutant of CpsSets: twelve sets whatever the length
CpsSetsTwelve(frame) == 12

\* sets = 2 if len(frame) <= 20 else 12
CpsSets(frame) == IF Len(frame) <= 20 THEN 2 ELSE 12

\* Mutant of CpsOverload: the flag is read whatever the length byte
CpsOverloadAnyLength(frame) ==
    IF Len(frame) > 14 THEN At(frame, 14) % 256 ELSE 0

CpsOverload(frame) ==
    IF At(frame, 0) = 18 /\ Len(frame) > 14 THEN At(frame, 14) % 256 ELSE 0

ParseCps(frame) ==
    IF Len(frame) < 13 \/ At(frame, 1) # 23 THEN None
    ELSE IF ~ValidateCpsChecksum2b(frame) THEN None
    ELSE IF CpsOverload(frame) > 1 THEN None
    ELSE
        LET sets == CpsSets(frame)
            acc  == CpsLoop(frame, sets, 0, [cps |-> <<>>, dose_rate |-> <<>>])
        IN  Return([type      |-> "cps",
                    cps       |-> IF acc.cps # <<>> THEN acc.cps[1]
                                  ELSE Quot(0, 1),
                    dose_rate |-> IF acc.dose_rate # <<>> THEN acc.dose_rate[1]
                                  ELSE Quot(0, 1)])

\* Mutant of ParseBattery: a battery level of 100 is rejected already
ParseBatteryBelow100(frame) ==
    IF Len(frame) < 6 \/ At(frame, 1) # 2 THEN None
    ELSE
        LET temp_raw    == (At(frame, 2) % 256) + (At(frame, 3) % 256) * 256
            level       == At(frame, 4) % 256
            is_charging == IF Len(frame) > 5 THEN (At(frame, 5) % 256) # 0
                           ELSE FALSE
        IN  IF level >= 100 \/ temp_raw - 1000 < -400 \/ temp_raw - 1000 > 800
            THEN None
            ELSE Return([type        |-> "battery",
                         level       |-> level,
                         temperature |-> Quot(temp_raw - 1000, 10),
                         is_charging |-> is_charging])

\* temperature = temp_raw / 10.0 - 100.0 is Quot(temp_raw - 1000, 10), so
\* temperature < -40 is temp_raw - 1000 < -400 and > 80 is > 800.
ParseBattery(frame) ==
    IF Len(frame) < 6 \/ At(frame, 1) # 2 THEN None
    ELSE
        LET temp_raw    == (At(frame, 2) % 256) + (At(frame, 3) % 256) * 256
            level       == At(frame, 4) % 256
            is_charging == IF Len(frame) > 5 THEN (At(frame, 5) % 256) # 0
                           ELSE FALSE
        IN  IF level > 100 \/ temp_raw - 1000 < -400 \/ temp_raw - 1000 > 800
            THEN None
            ELSE Return([type        |-> "battery",
                         level       |-> level,
                         temperature |-> Quot(temp_raw - 1000, 10),
                         is_charging |-> is_charging])

-----------------------------------------------------------------------------
(* Spectrum differential decoder.  The decoding state is                     *)
(* s = [pos, x, cur_val, bins, amount, brk, read]: the payload cursor, the   *)
(* channel cursor, the running accumulator, the bin map (a function from     *)
(* channel to value), the values emitted by the current group, whether the   *)
(* outer loop has hit a break, and the highest frame index read so far.      *)

\* bins[x] = v
Put(bins, x, v) ==
    [k \in (DOMAIN bins) \cup {x} |-> IF k = x THEN v ELSE bins[k]]

\* Mutant of Signed: the delta is taken as unsigned
Unsigned(diff, half, full) == diff

\* if diff > half: diff -= full
Signed(diff, half, full) == IF diff > half THEN diff - full ELSE diff

\* frame[i] has been read
Read(s, i) == [s EXCEPT !.read = IF i > @ THEN i ELSE @]

\* Mutant of EmitBin: the channel cursor moves on by two
EmitBinSkipping(s, diff, div) ==
    [s EXCEPT !.cur_val = @ + diff,
              !.bins    = Put(@, s.x, Quot(s.cur_val + diff, div)),
              !.x       = @ + 2]

\* cur_val += diff; bins[x] = cur_val / float(div); x += 1
EmitBin(s, diff, div) ==
    [s EXCEPT !.cur_val = @ + diff,
              !.bins    = Put(@, s.x, Quot(s.cur_val + diff, div)),
              !.x       = @ + 1]

\* The inner loops carry amount, the values of the group emitted so far, in
\* the state; each pass emits at least one value, so points_amount passes
\* bound them.

\* point_type == 0: two values in one byte, high nibble then low nibble
NibbleStep(frame, limit, div, points_amount, s) ==
    IF s.amount < points_amount /\ s.pos < limit /\ s.pos < Len(frame) THEN
        LET bytev == At(frame, s.pos)
            s1    == [EmitBin(Read(s, s.pos),
                              Signed((bytev % 256) \div 16, 7, 16), div)
                         EXCEPT !.amount = @ + 1]
            s2    == IF s1.amount < points_amount
                     THEN [EmitBin(s1, Signed((bytev % 256) % 16, 7, 16), div)
                              EXCEPT !.amount = @ + 1]
                     ELSE s1
        IN  [s2 EXCEPT !.pos = @ + 1]
    ELSE s

\* Mutant of ByteStep: the value is emitted and the cursor stays
ByteStepStalling(frame, limit, div, points_amount, s) ==
    IF s.amount < points_amount /\ s.pos < limit /\ s.pos < Len(frame) THEN
        [EmitBin(Read(s, s.pos), Signed(At(frame, s.pos) % 256, 127, 256), div)
            EXCEPT !.amount = @ + 1]
    ELSE s

\* point_type == 1: one signed 8-bit value per byte
ByteStep(frame, limit, div, points_amount, s) ==
    IF s.amount < points_amount /\ s.pos < limit /\ s.pos < Len(frame) THEN
        [EmitBin(Read(s, s.pos), Signed(At(frame, s.pos) % 256, 127, 256), div)
            EXCEPT !.amount = @ + 1, !.pos = @ + 1]
    ELSE s

\* point_type == 2: two 12-bit values in three bytes
TwelveStep(frame, limit, div, points_amount, s) ==
    IF s.amount < points_amount /\ s.pos + 1 < limit /\ s.pos + 1 < Len(frame)
    THEN
        LET b0     == At(frame, s.pos)
            b1     == At(frame, s.pos + 1)
            first  == (b0 * 16 + ((b1 \div 16) % 16)) % 4096
            s1     == [EmitBin(Read(s, s.pos + 1), Signed(first, 2047, 4096),
                               div)
                          EXCEPT !.amount = @ + 1, !.pos = @ + 2]
            more   == s1.amount < points_amount /\ s1.pos < limit
                        /\ s1.pos < Len(frame)
            second == (b1 % 16) * 256 + (At(frame, s1.pos) % 256)
        IN  IF more
            THEN [EmitBin(Read(s1, s1.pos), Signed(second, 2047, 4096), div)
                     EXCEPT !.amount = @ + 1, !.pos = @ + 1]
            ELSE s1
    ELSE s

\* Mutant of SixteenStep: only the first byte of a value is held below limit
SixteenStepLoose(frame, limit, div, points_amount, s) ==
    IF s.amount < points_amount /\ s.pos < limit /\ s.pos + 1 < Len(frame)
    THEN
        LET diff == (At(frame, s.pos + 1) % 256) * 256 + (At(frame, s.pos) % 256)
        IN  [EmitBin(Read(s, s.pos + 1), Signed(diff, 32767, 65536), div)
                EXCEPT !.amount = @ + 1, !.pos = @ + 2]
    ELSE s

\* point_type == 3: one signed 16-bit little-endian value in two bytes
SixteenStep(frame, limit, div, points_amount, s) ==
    IF s.amount < points_amount /\ s.pos + 1 < limit /\ s.pos + 1 < Len(frame)
    THEN
        LET diff == (At(frame, s.pos + 1) % 256) * 256 + (At(frame, s.pos) % 256)
        IN  [EmitBin(Read(s, s.pos + 1), Signed(diff, 32767, 65536), div)
                EXCEPT !.amount = @ + 1, !.pos = @ + 2]
    ELSE s

\* Mutant of PointType: control byte 0 is not special
PointTypeOfBits(b) == (b % 256) \div 64

\* bytes[pos] == 0 means pointType = 4, pointsAmount = 1
PointType(b) == IF b = 0 THEN 4 ELSE (b % 256) \div 64

PointsAmount(b) == IF b = 0 THEN 1 ELSE (b % 256) % 64

\* One coding group: the control byte at s.pos and the values it governs.
\* brk is the outer loop's break.
Group(frame, limit, div, s) ==
    LET b             == At(frame, s.pos)
        point_type    == PointType(b)
        points_amount == PointsAmount(b)
        t             == [Read(s, s.pos) EXCEPT !.pos = @ + 1, !.amount = 0]
    IN  IF point_type = 0 THEN
            Iterate(LAMBDA u : NibbleStep(frame, limit, div, points_amount, u),
                    points_amount, t)
        ELSE IF point_type = 1 THEN
            Iterate(LAMBDA u : ByteStep(frame, limit, div, points_amount, u),
                    points_amount, t)
        ELSE IF point_type = 2 THEN
            Iterate(LAMBDA u : TwelveStep(frame, limit, div, points_amount, u),
                    points_amount, t)
        ELSE IF point_type = 3 THEN
            Iterate(LAMBDA u : SixteenStep(frame, limit, div, points_amount, u),
                    points_amount, t)
        ELSE IF point_type = 4 THEN
            IF t.pos + 2 < limit /\ t.pos + 2 < Len(frame) THEN
                LET diff == At(frame, t.pos + 2) * 65536
                              + At(frame, t.pos + 1) * 256 + At(frame, t.pos)
                IN  [EmitBin(Read(t, t.pos + 2),
                             Signed(diff, 8388607, 16777216), div)
                        EXCEPT !.pos = @ + 3]
            ELSE [t EXCEPT !.brk = TRUE]
        ELSE [t EXCEPT !.brk = TRUE]

\* One pass of: while pos < limit and pos < frame_len and x < max_channel
SpectrumStep(frame, limit, div, max_channel, s) ==
    IF ~s.brk /\ s.pos < limit /\ s.pos < Len(frame) /\ s.x < max_channel
    THEN Group(frame, limit, div, s)
    ELSE s

\* Every pass moves pos forward, so len(frame) passes bound the loop.
SpectrumLoop(frame, limit, div, max_channel, s) ==
    Iterate(LAMBDA u : SpectrumStep(frame, limit, div, max_channel, u),
            Len(frame), s)

SpectrumDiv(ptype) == IF ptype = 49 THEN 3 ELSE IF ptype = 50 THEN 9 ELSE 1

\* The decoding state when the while loop of _parse_spectrum is entered, for a
\* frame of at least 7 bytes: the first bin is written and pos = 7
SpectrumStart(frame) ==
    LET div      == SpectrumDiv(At(frame, 1))
        start_ch == At(frame, 2) + At(frame, 3) * 256
        cur_val  == At(frame, 6) * 65536 + At(frame, 5) * 256 + At(frame, 4)
        x        == start_ch \div div
    IN  [pos     |-> 7,
         x       |-> x + 1,
         cur_val |-> cur_val,
         bins    |-> Put(<<>>, x, Quot(cur_val, div)),
         amount  |-> 0,
         brk     |-> FALSE,
         read    |-> 6]

\* The decoding state when the while loop of _parse_spectrum ends: the first
\* bin, then the coding groups
SpectrumDecode(frame) ==
    LET length      == IF At(frame, 0) = 0 THEN 256 ELSE At(frame, 0)
        limit       == length - 3
        div         == SpectrumDiv(At(frame, 1))
        max_channel == (1800 \div div) + 10
    IN  SpectrumLoop(frame, limit, div, max_channel, SpectrumStart(frame))

\* frame[0], frame[2], frame[3] and frame[6], frame[5], frame[4] are read
\* without a length check: a read past the end is Python's IndexError.
ParseSpectrum(frame) ==
    IF Len(frame) < 1 THEN Raise
    ELSE
    LET length == IF At(frame, 0) = 0 THEN 256 ELSE At(frame, 0)
    IN  IF ~ValidateSpectrumChecksum(frame) THEN None
        ELSE
        LET limit    == length - 3
            ptype    == At(frame, 1)
            div      == SpectrumDiv(ptype)
            start_ch == At(frame, 2) + At(frame, 3) * 256
        IN  IF start_ch > 2000 THEN None
            ELSE IF Len(frame) < 7 THEN Raise
            ELSE
            LET s == SpectrumDecode(frame)
            IN  Return([type         |-> "spectrum",
                        bins         |-> s.bins,
                        last_channel |-> s.x,
                        div          |-> div])

\* The result is [raised, pkt]: pkt holds the record handed to
\* packet_received.emit, if any ("if pkt:" is true of every returned dict).
ParseFrame(frame) ==
    IF Len(frame) < 4 THEN None
    ELSE
    LET ptype == At(frame, 1)
    IN  IF ptype = 23 THEN ParseCps(frame)
        ELSE IF ptype = 2 THEN ParseBattery(frame)
        ELSE IF ptype \in SPECTRUM_TYPES THEN ParseSpectrum(frame)
        ELSE None

-----------------------------------------------------------------------------
(* Frame reassembler: _notification_handler.  A handler state is            *)
(* st = [buffer, expected_len, start_time, emitted, log, parsed, raised]:   *)
(* the three fields of the worker, then what the call has done so far.      *)

TimeoutMs == 500

\* Mutant of TimedOut: the frame is dropped at exactly 500 ms already
TimedOutInclusive(expected_len, start_time, t) ==
    expected_len > 0 /\ t - start_time >= TimeoutMs

\* if self._spectrum_expected_len > 0: elapsed = now - start; elapsed > 0.5
TimedOut(expected_len, start_time, t) ==
    expected_len > 0 /\ t - start_time > TimeoutMs

\* Mutant of Cleared: the buffer is emptied, the expected length kept
ClearedBufferOnly(st, event) ==
    [st EXCEPT !.buffer = <<>>, !.log = Append(@, event)]

\* self._spectrum_buffer.clear(); self._spectrum_expected_len = 0
Cleared(st, event) ==
    [st EXCEPT !.buffer = <<>>, !.expected_len = 0, !.log = Append(@, event)]

DeclaredLen(raw) == IF At(raw, 0) = 0 THEN 256 ELSE At(raw, 0)

IsNewPacket(raw) ==
    /\ Len(raw) >= 2
    /\ (At(raw, 1) \in SPECTRUM_TYPES \/ At(raw, 1) \in {2, 23})
    /\ 4 <= DeclaredLen(raw) /\ DeclaredLen(raw) <= 256

\* if self._spectrum_expected_len > 0 and is_new_packet and len(raw) > 10
Desync(expected_len, raw) ==
    expected_len > 0 /\ IsNewPacket(raw) /\ Len(raw) > 10

\* self._parse_frame(frame): an exception leaves the handler at once
Dispatch(st, frame) ==
    LET r == ParseFrame(frame)
    IN  [st EXCEPT !.parsed  = Append(@, frame),
                   !.emitted = @ \o r.pkt,
                   !.raised  = r.raised]

\* Mutant of Complete: the pending state is cleared only once the frame
\* has yielded a record
CompleteKeepsRejected(st) ==
    LET frame == Slice(st.buffer, 0, st.expected_len)
        r     == Dispatch(st, frame)
    IN  IF r.emitted # <<>> THEN Cleared(r, "COMPLETE")
        ELSE [r EXCEPT !.log = Append(@, "COMPLETE")]

\* Mutant of Complete: the bytes beyond the expected length stay in the buffer
CompleteCarriesOver(st) ==
    LET frame == Slice(st.buffer, 0, st.expected_len)
        rest  == Slice(st.buffer, st.expected_len, Len(st.buffer))
    IN  Dispatch([Cleared(st, "COMPLETE") EXCEPT !.buffer = rest], frame)

\* frame = buffer[:expected_len]; clear; _parse_frame(frame)
Complete(st) ==
    LET frame == Slice(st.buffer, 0, st.expected_len)
    IN  Dispatch(Cleared(st, "COMPLETE"), frame)

\* if self._spectrum_expected_len > 0: extend, complete when long enough
Assemble(st, raw) ==
    LET s1 == [st EXCEPT !.buffer = @ \o raw, !.log = Append(@, "ADDED")]
    IN  IF Len(s1.buffer) >= s1.expected_len THEN Complete(s1) ELSE s1

\* Mutant of NewPacket: the arrival time is stored for every chunk
NewPacketStamps(st, raw, t) ==
    IF Len(raw) >= 2 /\ At(raw, 1) \in SPECTRUM_TYPES THEN
        [st EXCEPT !.buffer       = raw,
                   !.expected_len = DeclaredLen(raw),
                   !.start_time   = t,
                   !.log          = Append(@, "START")]
    ELSE Dispatch([st EXCEPT !.start_time = t], raw)

\* Mutant of NewPacket: a spectrum chunk that holds its whole frame is parsed
\* at once
NewPacketParsesWhole(st, raw, t) ==
    IF Len(raw) >= 2 /\ At(raw, 1) \in SPECTRUM_TYPES
       /\ Len(raw) < DeclaredLen(raw)
    THEN
        [st EXCEPT !.buffer       = raw,
                   !.expected_len = DeclaredLen(raw),
                   !.start_time   = t,
                   !.log          = Append(@, "START")]
    ELSE Dispatch(st, raw)

\* the "New packet - check type" part: start buffering, or parse directly
NewPacket(st, raw, t) ==
    IF Len(raw) >= 2 /\ At(raw, 1) \in SPECTRUM_TYPES THEN
        [st EXCEPT !.buffer       = raw,
                   !.expected_len = DeclaredLen(raw),
                   !.start_time   = t,
                   !.log          = Append(@, "START")]
    ELSE Dispatch(st, raw)

Handler(buffer, expected_len, start_time, raw, t) ==
    LET st0 == [buffer       |-> buffer,
                expected_len |-> expected_len,
                start_time   |-> start_time,
                emitted      |-> <<>>,
                log          |-> <<>>,
                parsed       |-> <<>>,
                raised       |-> FALSE]
        st1 == IF TimedOut(st0.expected_len, st0.start_time, t)
               THEN Cleared(st0, "TIMEOUT") ELSE st0
        st2 == IF Desync(st1.expected_len, raw)
               THEN Cleared(st1, "RESET") ELSE st1
    IN  IF st2.expected_len > 0 THEN Assemble(st2, raw)
        ELSE NewPacket(st2, raw, t)

-----------------------------------------------------------------------------
(* The worker after construction, and the delivery of one notification *)

DecoderInit ==
    /\ spectrum_buffer = <<>>
    /\ spectrum_expected_len = 0
    /\ spectrum_buffer_start_time = 0
    /\ now = 0
    /\ chunk = <<>>
    /\ emitted = <<>>
    /\ log = <<>>
    /\ parsed = <<>>
    /\ raised = FALSE

\* The transport calls _notification_handler(handle, raw) dt ms after the
\* previous notification.
Notify(raw, dt) ==
    LET t == now + dt
        r == Handler(spectrum_buffer, spectrum_expected_len,
                     spectrum_buffer_start_time, raw, t)
    IN  /\ now' = t
        /\ chunk' = raw
        /\ spectrum_buffer' = r.buffer
        /\ spectrum_expected_len' = r.expected_len
        /\ spectrum_buffer_start_time' = r.start_time
        /\ emitted' = r.emitted
        /\ log' = r.log
        /\ parsed' = r.parsed
        /\ raised' = r.raised

ScriptInit ==
    /\ feed = <<>>
    /\ parts = 0
    /\ orig = <<>>
    /\ groups = <<>>
    /\ received = <<>>

CommandInit ==
    /\ payload = <<>>
    /\ packet = [raised |-> FALSE, bytes |-> <<>>]

\* The clock at the start: 0x690C30FF, one second before a byte carry
UnixStart == 1762406655

\* MainWindow.__init__: no worker, not connected, the Spectrum tab (index 0)
\* selected, Connect enabled, Disconnect disabled, no timer running
AppInit ==
    /\ ble_worker = 0
    /\ connected = FALSE
    /\ connect_btn = TRUE
    /\ disconnect_btn = FALSE
    /\ current_tab = 0
    /\ ping_timer = FALSE
    /\ reconnect_attempts = 0
    /\ reconnect_timers = 0
    /\ tasks = <<>>
    /\ workers = <<>>
    /\ unix = UnixStart

-----------------------------------------------------------------------------
(* The decoder under an arbitrary transport: any notification of Chunks,    *)
(* any delay of Delays after the one before.                                *)

\* A 12-byte spectrum frame (tag 0x30, start channel 5, initial value 1000,
\* one group of two 8-bit deltas), its first 7 bytes and its last 5
S12 == <<12, 48, 5, 0, 232, 3, 0, 66, 3, 5, 154, 12>>

S12Head == SubSeq(S12, 1, 7)

S12Tail == SubSeq(S12, 8, 12)

\* S12Tail with one delta bit flipped: the frame's checksum fails
S12TailBad == <<66, 2, 5, 154, 12>>

\* A 6-byte spectrum frame with a correct checksum
S6 == <<6, 48, 0, 0, 48, 6>>

\* A 7-byte spectrum frame (tag 0x32) with a correct checksum
S7 == <<7, 50, 9, 0, 9, 50, 7>>

\* An 8-byte spectrum frame (tag 0x31) with a correct checksum and start
\* channel 2001
S8 == <<8, 49, 209, 7, 0, 209, 49, 15>>

\* A spectrum-tagged chunk whose length byte declares 2 bytes
S2Len == <<2, 48, 0, 0>>

\* The first 12 bytes of a 256-byte spectrum frame (length byte 0)
H256 == <<0, 49, 0, 0, 10, 0, 0, 65, 1, 65, 1, 65>>

\* Count-rate frames with a correct checksum: 13 bytes; 18 bytes with the
\* overload flag 1; 18 bytes with the overload flag 2
C13 == <<13, 23, 0, 88, 2, 1, 44, 1, 0, 1, 20, 0, 13>>

C18 == <<18, 23, 0, 88, 2, 1, 44, 1, 1, 0, 0, 0, 0, 0, 1, 20, 0, 18>>

C18Over == <<18, 23, 0, 88, 2, 1, 44, 1, 1, 0, 0, 0, 0, 0, 2, 20, 0, 18>>

\* C13 with one payload bit flipped: the checksum fails
C13Bad == <<13, 23, 0, 88, 3, 1, 44, 1, 0, 1, 20, 0, 13>>

\* Status frames: battery 100; battery 101; 10 and 11 bytes long at 80.0
\* degrees; 80.1 degrees
B6 == <<6, 2, 232, 3, 100, 1>>

B6Full == <<6, 2, 232, 3, 101, 1>>

B10 == <<10, 2, 8, 7, 55, 0, 0, 0, 0, 0>>

B11 == <<11, 2, 8, 7, 55, 0, 0, 0, 0, 0, 0>>

B6Hot == <<6, 2, 9, 7, 55, 0>>

\* B6 with the length byte 3
B6Short == <<3, 2, 232, 3, 100, 1>>

\* An unrecognized type tag, and a chunk of one byte
Junk == <<9, 85, 1, 2>>

One == <<7>>

Chunks ==
    {S12, S12Head, S12Tail, S12TailBad, S6, S7, S8, S2Len, H256,
     C13, C18, C18Over, C13Bad, B6, B6Full, B10, B11, B6Hot, B6Short,
     Junk, One, <<>>}

HalfMs == 250

Delays == {HalfMs, HalfMs + 1, TimeoutMs, TimeoutMs + 1}

MaxNow == 1002

Init == DecoderInit /\ ScriptInit /\ CommandInit /\ AppInit

Deliver ==
    \E raw \in Chunks, dt \in Delays :
        /\ now + dt <= MaxNow
        /\ Notify(raw, dt)
        /\ UNCHANGED <<scriptVars, commandVars, appVars>>

Next == Deliver

Spec == Init /\ [][Next]_vars

-----------------------------------------------------------------------------
(* What the protocol description says of a frame, stated without the        *)
(* decoder's own operators: the claims compare the decoder against these.   *)

Range(q) == {q[i] : i \in 1..Len(q)}

\* XOR of the bytes data[lo..hi] that lie at the offsets congruent to lane
\* modulo 3, the range halved at each step
RECURSIVE LaneXor(_, _, _, _)
LaneXor(data, lane, lo, hi) ==
    IF lo > hi THEN 0
    ELSE IF lo = hi THEN (IF (lo - 1) % 3 = lane THEN data[lo] ELSE 0)
    ELSE LET mid == (lo + hi) \div 2
         IN  BitXor(LaneXor(data, lane, lo, mid),
                    LaneXor(data, lane, mid + 1, hi))

\* Xor24: the 3-byte big-endian words of data XORed together, the last word
\* zero-padded, which is one XOR per byte lane
Xor24(data) ==
    LaneXor(data, 0, 1, Len(data)) * 65536 + LaneXor(data, 1, 1, Len(data)) * 256
      + LaneXor(data, 2, 1, Len(data))

LittleEndian24(b) == b[1] + b[2] * 256 + b[3] * 65536

SpectrumChecksumOk(f) ==
    /\ Len(f) >= 6
    /\ Xor24(SubSeq(f, 1, Len(f) - 3))
         = LittleEndian24(SubSeq(f, Len(f) - 2, Len(f)))

\* Count-rate validation: Xor24 over frame bytes [1 .. len-3), its middle and
\* high bytes against frame bytes len-4 and len-3
CpsChecksumOk(f) ==
    /\ Len(f) >= 7
    /\ LET c == Xor24(SubSeq(f, 2, Len(f) - 3))
       IN  /\ f[Len(f) - 3] = (c \div 256) % 256
           /\ f[Len(f) - 2] = c \div 65536

IsCountRate(f) == Len(f) >= 4 /\ f[2] = 23

IsStatus(f) == Len(f) >= 4 /\ f[2] = 2

IsSpectrum(f) == Len(f) >= 4 /\ f[2] \in {48, 49, 50}

\* A frame that fails no structural, checksum or semantic check
AcceptedCountRate(f) ==
    /\ IsCountRate(f) /\ Len(f) >= 13 /\ CpsChecksumOk(f)
    /\ ~(f[1] = 18 /\ Len(f) > 14 /\ f[15] > 1)

AcceptedStatus(f) ==
    /\ IsStatus(f) /\ Len(f) >= 6 /\ f[5] <= 100
    /\ f[3] + f[4] * 256 >= 600 /\ f[3] + f[4] * 256 <= 1800

AcceptedSpectrum(f) ==
    /\ IsSpectrum(f) /\ SpectrumChecksumOk(f)
    /\ f[3] + f[4] * 256 <= 2000

Accepted(f) == AcceptedCountRate(f) \/ AcceptedStatus(f) \/ AcceptedSpectrum(f)

\* An accepted frame long enough to hold the spectrum header, if a spectrum
AcceptedWithHeader(f) == Accepted(f) /\ (IsSpectrum(f) => Len(f) >= 7)

Variant(f) ==
    IF IsCountRate(f) THEN "cps" ELSE IF IsStatus(f) THEN "battery"
    ELSE "spectrum"

\* A chunk that holds one whole frame: as long as its length byte declares
WholeFrame(c) ==
    Len(c) >= 4 /\ Len(c) = (IF c[1] = 0 THEN 256 ELSE c[1])

Idle == spectrum_expected_len = 0 /\ spectrum_buffer = <<>>

Assembling == spectrum_expected_len > 0

\* A frame is pending and still incomplete
Partial == Assembling /\ Len(spectrum_buffer) < spectrum_expected_len

Logged(event) == event \in Range(log)

-----------------------------------------------------------------------------
(* Claims checked under Spec *)

\* C2: for every chunk and every reachable reassembler state the handler
\* returns normally: no decode step raises.
C2_HandlerNeverRaises == raised = FALSE

\* C3: a chunk arriving more than 500 ms after the pending frame's start
\* clears buffer and expected length before the chunk is examined, and the
\* chunk is then handled exactly as in Idle; a chunk arriving at most 500 ms
\* after the start is not discarded by the timeout check; the start
\* timestamp is the arrival time of the chunk that began the assembly.
C3Step ==
    LET late == Assembling /\ now' - spectrum_buffer_start_time > 500
        idle == Handler(<<>>, 0, spectrum_buffer_start_time, chunk', now')
    IN  /\ late =>
              /\ log' = <<"TIMEOUT">> \o idle.log
              /\ spectrum_buffer' = idle.buffer
              /\ spectrum_expected_len' = idle.expected_len
              /\ spectrum_buffer_start_time' = idle.start_time
              /\ emitted' = idle.emitted
              /\ parsed' = idle.parsed
              /\ raised' = idle.raised
        /\ ~late => ~Logged("TIMEOUT")'
        /\ Logged("START")' => spectrum_buffer_start_time' = now'
        /\ ~Logged("START")' =>
              /\ spectrum_buffer_start_time' = spectrum_buffer_start_time
              /\ Assembling' => Assembling

C3_TimeoutThenIdleHandling == [][C3Step]_vars

\* C3 witness: a chunk arrived late and the pending frame was timed out
C3_Witness == Logged("TIMEOUT") /\ chunk = C13 /\ Len(emitted) = 1

\* C4: after a partial frame and more than 500 ms, a single chunk holding a
\* complete valid frame of any record type yields exactly that frame's record.
C4Step ==
    (Partial /\ now' - spectrum_buffer_start_time > 500
       /\ WholeFrame(chunk') /\ AcceptedWithHeader(chunk'))
    => (Len(emitted') = 1 /\ emitted'[1].type = Variant(chunk'))

C4_LateFrameYieldsItsRecord == [][C4Step]_vars

\* C5: while a partial spectrum frame is pending and within the timeout, a
\* chunk that looks like a fresh frame header (recognized tag, plausible
\* length, at least 10 bytes) discards the pending frame and is decoded into
\* its record.  Stated for count-rate and status frames, which arrive whole.
C5Step ==
    (Partial /\ now' - spectrum_buffer_start_time <= 500
       /\ Len(chunk') >= 10 /\ WholeFrame(chunk') /\ Accepted(chunk')
       /\ (IsCountRate(chunk') \/ IsStatus(chunk')))
    => (Len(emitted') = 1 /\ emitted'[1].type = Variant(chunk') /\ Idle')

C5_DesyncDecodesSecondFrame == [][C5Step]_vars

\* C6: each chunk causes at most one emission; a frame that fails no check
\* causes exactly one record of the variant of its tag, and a frame that
\* fails a structural, checksum or semantic check causes none.
C6_OneRecordPerAcceptedFrame ==
    /\ Len(emitted) <= 1
    /\ Len(parsed) <= 1
    /\ parsed = <<>> => emitted = <<>>
    /\ \A i \in 1..Len(parsed) :
           IF Accepted(parsed[i])
           THEN Len(emitted) = 1 /\ emitted[1].type = Variant(parsed[i])
           ELSE emitted = <<>>

\* C7: a rejection inside _parse_frame leaves the reassembler Idle with
\* expected length 0 and an empty buffer; a timeout or desync leaves nothing
\* of the abandoned frame; and the next whole count-rate or status frame is
\* decoded as usual.
C7Rejected == parsed # <<>> /\ emitted = <<>>

C7Step ==
    /\ C7Rejected' => Idle'
    /\ (Logged("TIMEOUT")' \/ Logged("RESET")') =>
           (Idle' \/ (Logged("START")' /\ spectrum_buffer' = chunk'))
    /\ (C7Rejected /\ Accepted(chunk')
          /\ (IsCountRate(chunk') \/ IsStatus(chunk')))
       => (Len(emitted') = 1 /\ emitted'[1].type = Variant(chunk'))

C7_RejectionLeavesCleanState == [][C7Step]_vars

\* C7 witness: a completed frame was rejected by its checksum
C7_Witness ==
    /\ Logged("COMPLETE") /\ parsed # <<>> /\ ~SpectrumChecksumOk(parsed[1])
    /\ emitted = <<>> /\ Idle

-----------------------------------------------------------------------------
(* A 256-byte spectrum frame delivered in pieces: the frame orig is cut     *)
(* into parts consecutive non-empty chunks at arbitrary boundaries, handed  *)
(* to _notification_handler in order, FragGapMs apart.                      *)

\* The three checksum bytes that close a spectrum frame over body
Trailer(body) ==
    LET c == Xor24(body)
    IN  <<c % 256, (c \div 256) % 256, c \div 65536>>

\* A 256-byte spectrum frame: length byte 0, start channel 0, initial value
\* 10, then the coding group pat repeated over the 246 payload bytes
Frame256(tag, pat) ==
    LET body == <<0, tag, 0, 0, 10, 0, 0>>
                  \o [i \in 1..246 |-> pat[((i - 1) % Len(pat)) + 1]]
    IN  body \o Trailer(body)

\* Five 8-bit deltas per group; and 32 4-bit deltas per group, in a frame
\* whose payload holds the byte pair FF 02
Frames256 ==
    {Frame256(48, <<69, 1, 255, 3, 254, 4>>),
     Frame256(49, <<32, 18, 241, 255, 2, 33, 19, 241, 31, 1, 0, 17,
                    242, 47, 16, 1, 255>>)}

Splits == {1, 2, 13}

ChunkSizes == {1, 10, 21}

FragGapMs == 40

InitFrag ==
    /\ DecoderInit
    /\ AppInit
    /\ CommandInit
    /\ orig \in Frames256
    /\ parts \in Splits
    /\ feed = orig
    /\ groups = <<>>
    /\ received = <<>>

\* The next chunk: the rest of the frame if it is the last one, otherwise k
\* bytes that leave at least one byte to each chunk still to come
FeedChunk ==
    /\ parts > 0
    /\ \E k \in (IF parts = 1 THEN {Len(feed)}
                 ELSE {n \in ChunkSizes : Len(feed) - n >= parts - 1}) :
          /\ Notify(SubSeq(feed, 1, k), FragGapMs)
          /\ feed' = SubSeq(feed, k + 1, Len(feed))
          /\ parts' = parts - 1
          /\ received' = received \o emitted'
    /\ UNCHANGED <<orig, groups, commandVars, appVars>>

NextFrag == FeedChunk

SpecFrag == InitFrag /\ [][NextFrag]_vars

\* C1: a valid 256-byte spectrum frame cut into 1, 2 or 13 non-empty chunks
\* and fed from Idle within 500 ms yields exactly one record, the one
\* _parse_spectrum produces for the whole frame, whatever the boundaries.
C1_FragmentsYieldTheFrameRecord ==
    (parts = 0 /\ feed = <<>>) => received = ParseSpectrum(orig).pkt

-----------------------------------------------------------------------------
(* A count-rate frame delivered whole to the worker in Idle, intact or with *)
(* one bit of one byte inverted.                                            *)

\* f with bit k of the byte at Python index i inverted
FlipAt(f, i, k) == [f EXCEPT ![i + 1] = BitXor(@, 2 ^ k)]

\* f with the middle and high bytes of Xor24 over frame bytes [1 .. len-3)
\* stored at len-4 and len-3
SealCps(f) ==
    LET c == Xor24(SubSeq(f, 2, Len(f) - 3))
    IN  [f EXCEPT ![Len(f) - 3] = (c \div 256) % 256,
                  ![Len(f) - 2] = c \div 65536]

\* Count-rate frames before sealing: 13 bytes (1.0 cps, 0.005 uSv/h and
\* 10.0 cps alone), 14 bytes, 18 bytes with the overload flag 0 and 1, and
\* 22 bytes with four triplets
CpsBodies ==
    {<<13, 23, 0, 88, 2, 1, 44, 1, 0, 0, 0, 0, 13>>,
     <<13, 23, 0, 112, 23, 2, 7, 9, 4, 0, 0, 0, 13>>,
     <<14, 23, 1, 44, 1, 0, 176, 4, 3, 5, 0, 0, 0, 14>>,
     <<18, 23, 0, 88, 2, 1, 44, 1, 1, 0, 0, 0, 0, 0, 0, 0, 0, 18>>,
     <<18, 23, 0, 88, 2, 1, 44, 1, 1, 0, 0, 0, 0, 0, 1, 0, 0, 18>>,
     <<22, 23, 1, 10, 0, 0, 20, 0, 1, 30, 0, 0, 40, 0, 5, 6, 7, 8, 0, 0, 0, 22>>}

\* Sealing twice settles the frames whose stored checksum byte lies inside
\* the checksummed bytes
CpsFrames ==
    {g \in {SealCps(SealCps(f)) : f \in CpsBodies} : AcceptedCountRate(g)}

InitCps ==
    /\ DecoderInit
    /\ AppInit
    /\ ScriptInit
    /\ CommandInit

\* The frame arrives as it was sent
DeliverIntact ==
    /\ orig = <<>>
    /\ \E f \in CpsFrames :
          /\ orig' = f
          /\ Notify(f, HalfMs)
    /\ UNCHANGED <<feed, parts, groups, received, commandVars, appVars>>

\* The frame arrives with one bit inverted on the way
DeliverFlipped ==
    /\ orig = <<>>
    /\ \E f \in CpsFrames :
          \E i \in 0..(Len(f) - 1), k \in 0..7 :
              /\ orig' = f
              /\ Notify(FlipAt(f, i, k), HalfMs)
    /\ UNCHANGED <<feed, parts, groups, received, commandVars, appVars>>

NextCps == DeliverIntact \/ DeliverFlipped

SpecCps == InitCps /\ [][NextCps]_vars

\* The Python index of the byte in which the delivered chunk differs from
\* the frame sent
FlippedIndex == CHOOSE i \in 0..(Len(orig) - 1) : chunk[i + 1] # orig[i + 1]

\* A bit was inverted in the checksummed bytes outside the checksum bytes
PayloadFlip ==
    orig # <<>> /\ chunk # orig /\ FlippedIndex \in 1..(Len(orig) - 5)

OneCountRate == Len(emitted) = 1 /\ emitted[1].type = "cps"

CpsLowBytesOk(f) ==
    /\ Len(f) >= 7
    /\ LET c == Xor24(SubSeq(f, 2, Len(f) - 3))
       IN  /\ f[Len(f) - 3] = c % 256
           /\ f[Len(f) - 2] = (c \div 256) % 256

-----------------------------------------------------------------------------
(* _parse_frame called on a spectrum frame: intact, cut short, with one bit *)
(* inverted (any bit of a short frame, the lowest or the highest bit of a   *)
(* byte of the 256-byte frame), or with two bytes exchanged, neighbours or  *)
(* bytes of one checksum lane.                                              *)

\* Frames of 9, 10 and 11 bytes: the checksummed bytes end on a whole word,
\* one byte into a word, two bytes into a word
S9 == <<9, 48, 1, 0, 5, 0>> \o Trailer(<<9, 48, 1, 0, 5, 0>>)

S10 == <<10, 49, 2, 0, 100, 0, 0>> \o Trailer(<<10, 49, 2, 0, 100, 0, 0>>)

S11 == <<11, 50, 0, 0, 7, 0, 0, 65>> \o Trailer(<<11, 50, 0, 0, 7, 0, 0, 65>>)

SpectrumFrames ==
    {S6, S7, S8, S9, S10, S11, S12, Frame256(48, <<69, 1, 255, 3, 254, 4>>)}

\* The exchanged pairs start in the first MaxSwapIdx + 1 bytes
MaxSwapIdx == 8

\* f with the bytes at Python indices i and j exchanged
SwapAt(f, i, j) == [f EXCEPT ![i + 1] = f[j + 1], ![j + 1] = f[i + 1]]

InitParse ==
    /\ DecoderInit
    /\ AppInit
    /\ ScriptInit
    /\ CommandInit

\* pkt = self._parse_frame(frame), called on a worker in Idle
ParseCall(frame) ==
    LET r == ParseFrame(frame)
    IN  /\ chunk' = frame
        /\ parsed' = <<frame>>
        /\ emitted' = r.pkt
        /\ raised' = r.raised
        /\ UNCHANGED <<spectrum_buffer, spectrum_expected_len,
                       spectrum_buffer_start_time, now, log>>

ParseIntact ==
    /\ orig = <<>>
    /\ \E f \in SpectrumFrames : orig' = f /\ ParseCall(f)
    /\ UNCHANGED <<feed, parts, groups, received, commandVars, appVars>>

ParseTruncated ==
    /\ orig = <<>>
    /\ \E f \in SpectrumFrames :
          \E n \in 0..(Len(f) - 1) : orig' = f /\ ParseCall(SubSeq(f, 1, n))
    /\ UNCHANGED <<feed, parts, groups, received, commandVars, appVars>>

ParseFlipped ==
    /\ orig = <<>>
    /\ \E f \in SpectrumFrames :
          \E i \in 0..(Len(f) - 1), k \in 0..7 :
              /\ Len(f) > 12 => k \in {0, 7}
              /\ orig' = f
              /\ ParseCall(FlipAt(f, i, k))
    /\ UNCHANGED <<feed, parts, groups, received, commandVars, appVars>>

ParseSwapped ==
    /\ orig = <<>>
    /\ \E f \in SpectrumFrames :
          \E i \in 0..MaxSwapIdx :
              \E j \in {i + 1, i + 3} :
                  /\ j < Len(f)
                  /\ orig' = f
                  /\ ParseCall(SwapAt(f, i, j))
    /\ UNCHANGED <<feed, parts, groups, received, commandVars, appVars>>

NextParse == ParseIntact \/ ParseTruncated \/ ParseFlipped \/ ParseSwapped

SpecParse == InitParse /\ [][NextParse]_vars

\* A frame carrying a spectrum type tag
SpectrumTagged(f) == Len(f) >= 2 /\ f[2] \in {48, 49, 50}

\* C9: _validate_spectrum_checksum(frame) is true exactly when the frame has
\* at least 6 bytes and Xor24 over frame bytes [0 .. len-3) equals the last
\* three bytes read as a little-endian 24-bit integer; a spectrum frame
\* failing the check yields no record at all.
C9_SpectrumChecksumIsXor24 ==
    \A i \in 1..Len(parsed) :
        /\ ValidateSpectrumChecksum(parsed[i]) <=> SpectrumChecksumOk(parsed[i])
        /\ (SpectrumTagged(parsed[i]) /\ ~SpectrumChecksumOk(parsed[i]))
             => (emitted = <<>> /\ ~raised)

\* C9 witness: a 12-byte spectrum frame with one payload bit inverted was
\* rejected by its checksum
C9_Witness ==
    /\ orig = S12 /\ parsed = <<chunk>> /\ chunk = S12Head \o S12TailBad
    /\ ~ValidateSpectrumChecksum(chunk) /\ emitted = <<>>

-----------------------------------------------------------------------------
(* _wrap_command applied to a payload *)

\* Every payload of at most MaxPayloadLen bytes over four byte values
MaxPayloadLen == 3

ShortPayloads ==
    UNION {[1..n -> {0, 1, 128, 255}] : n \in 0..MaxPayloadLen}

\* The payload of the handshake literal of connect()
HelloPayload == <<18, 0, 100, 23, 32, 143>>

\* Two words whose sum is 2^32, alone and before a tail of 1 to 3 bytes
CarryPayloads ==
    {<<255, 255, 255, 255, 1, 0, 0, 0>> \o SubSeq(<<7, 128, 255>>, 1, n) :
        n \in 0..3}

\* The keep-alive payload of the fixture; payloads of 4 to 9 bytes, whose
\* last word is whole or 1 to 3 bytes long; a spectrum range request; and
\* payloads of 246 to 248 bytes of 0xFF, whose word sum passes 2^32
Payloads ==
    ShortPayloads
      \cup {<<18, 1, 0, 0, 0, 10>>, <<62, 0, 0, 7, 9>>}
      \cup {SubSeq(<<18, 0, 101, 43, 255, 254, 200, 7, 99>>, 1, n) : n \in 4..9}
      \cup {[i \in 1..n |-> 255] : n \in {246, 247, 248}}
      \cup {HelloPayload}
      \cup CarryPayloads

InitCmd ==
    /\ DecoderInit
    /\ AppInit
    /\ ScriptInit
    /\ payload \in Payloads
    /\ packet = [raised |-> FALSE, bytes |-> <<>>]

\* packet = self._wrap_command(payload)
Wrap ==
    /\ packet.bytes = <<>> /\ ~packet.raised
    /\ packet' = WrapCommand(payload)
    /\ UNCHANGED <<decoderVars, scriptVars, payload, appVars>>

NextCmd == Wrap

SpecCmd == InitCmd /\ [][NextCmd]_vars

\* XOR of the bytes s[lo..hi], the range halved at each step
RECURSIVE XorBytes(_, _, _)
XorBytes(s, lo, hi) ==
    IF lo > hi THEN 0
    ELSE IF lo = hi THEN s[lo]
    ELSE LET mid == (lo + hi) \div 2
         IN  BitXor(XorBytes(s, lo, mid), XorBytes(s, mid + 1, hi))

XorByte(s) == XorBytes(s, 1, Len(s))

\* The byte of weight 256^k in the little-endian words of p: the bytes at
\* the offsets congruent to k modulo 4, summed over p[lo..hi]
RECURSIVE ColumnSum(_, _, _, _)
ColumnSum(p, k, lo, hi) ==
    IF lo > hi THEN 0
    ELSE IF lo = hi THEN (IF (lo - 1) % 4 = k THEN p[lo] ELSE 0)
    ELSE LET mid == (lo + hi) \div 2
         IN  ColumnSum(p, k, lo, mid) + ColumnSum(p, k, mid + 1, hi)

\* Sum32 of p as its four bytes, most significant first: the little-endian
\* words summed column by column with the carries, modulo 2^32
Sum32BE(p) ==
    LET c0 == ColumnSum(p, 0, 1, Len(p))
        c1 == ColumnSum(p, 1, 1, Len(p)) + (c0 \div 256)
        c2 == ColumnSum(p, 2, 1, Len(p)) + (c1 \div 256)
        c3 == ColumnSum(p, 3, 1, Len(p)) + (c2 \div 256)
    IN  <<c3 % 256, c2 % 256, c1 % 256, c0 % 256>>

Wrapped == packet.bytes # <<>>

\* C10: for a payload of L <= 247 bytes _wrap_command returns the L+8 bytes
\* [0xFF, XorByte(inner)] + inner + [L+8], inner = [0xEE] + Sum32(payload)
\* big-endian + payload: the trailing byte is the length of the finished
\* frame and the bytes between the leading 0xFF and the trailing byte XOR
\* to 0; the keep-alive payload 12 01 00 00 00 0A wraps to
\* FF EE EE 00 00 0B 12 12 01 00 00 00 0A 0E.
C10_WrapLayout ==
    (Wrapped \/ packet.raised) =>
        LET L     == Len(payload)
            inner == <<238>> \o Sum32BE(payload) \o payload
            b     == packet.bytes
        IN  /\ L <= 247 =>
                 /\ ~packet.raised
                 /\ b = <<255, XorByte(inner)>> \o inner \o <<L + 8>>
                 /\ Len(b) = L + 8
                 /\ b[Len(b)] = Len(b)
                 /\ XorBytes(b, 2, Len(b) - 1) = 0
            /\ payload = <<18, 1, 0, 0, 0, 10>> =>
                 b = <<255, 238, 238, 0, 0, 11, 18, 18, 1, 0, 0, 0, 10, 14>>

\* C10 witness: the longest payload in range was wrapped, into 255 bytes
C10_Witness ==
    /\ Wrapped /\ Len(payload) = 247 /\ Len(packet.bytes) = 255
    /\ packet.bytes[255] = 255

\* The byte of p at the 0-based offset i, 0 beyond the end
ByteOrZero(p, i) == IF i < Len(p) THEN p[i + 1] ELSE 0

\* The 16-bit half h (0 low, 1 high) of the little-endian word w of p
HalfWord(p, w, h) ==
    ByteOrZero(p, 4 * w + 2 * h) + 256 * ByteOrZero(p, 4 * w + 2 * h + 1)

\* The halves h of the words lo..hi of p, summed
RECURSIVE HalfSum(_, _, _, _)
HalfSum(p, h, lo, hi) ==
    IF lo > hi THEN 0
    ELSE IF lo = hi THEN HalfWord(p, lo, h)
    ELSE LET mid == (lo + hi) \div 2
         IN  HalfSum(p, h, lo, mid) + HalfSum(p, h, mid + 1, hi)

\* The sum modulo 2^32 of the little-endian words of p, a tail of 1 to 3
\* bytes being one more word, as [hi, lo]
Sum32(p) ==
    LET words == (Len(p) + 3) \div 4
        lo    == HalfSum(p, 0, 0, words - 1)
        hi    == HalfSum(p, 1, 0, words - 1) + (lo \div 65536)
    IN  [hi |-> hi % 65536, lo |-> lo % 65536]

\* C31: _crc1(payload) is the sum modulo 2^32 of the payload's little-endian
\* 32-bit words, a tail of 1 to 3 bytes packed as one more word; it fits in
\* 4 bytes, is 0 for the empty payload, and is what _wrap_command stores
\* big-endian after the 0xEE byte.
C31_Crc1IsWordSum ==
    (Wrapped \/ packet.raised) =>
        /\ Crc1(payload) = Sum32(payload)
        /\ Crc1(payload).hi \in 0..65535
        /\ Crc1(payload).lo \in 0..65535
        /\ payload = <<>> => Crc1(payload) = [hi |-> 0, lo |-> 0]
        /\ Wrapped =>
              SubSeq(packet.bytes, 4, 7) = ToBytes4Big(Sum32(payload))

\* C31 witness: two words that sum to 2^32 and a tail of three bytes were
\* wrapped: the sum is the tail's word alone, 0x00FF8007
C31_Witness ==
    /\ Wrapped
    /\ payload = <<255, 255, 255, 255, 1, 0, 0, 0, 7, 128, 255>>
    /\ SubSeq(packet.bytes, 4, 7) = <<0, 255, 128, 7>>

-----------------------------------------------------------------------------
(* _parse_battery called on a status frame built from its fields *)

\* Raw temperatures around the accepted range, battery levels around 100,
\* charging bytes, frame lengths around 6 and a tag that is not 0x02
StatusTemps == {0, 599, 600, 1000, 1800, 1801, 65535}

StatusLevels == {0, 55, 100, 101, 255}

StatusFlags == {0, 1, 128}

StatusTags == {2, 23}

MinStatusLen == 4

MaxStatusLen == 8

\* [len, tag, temp lo, temp hi, level, charging, 0, ...] cut to n bytes
StatusFrame(n, tag, temp_raw, level, flag) ==
    SubSeq(<<n, tag, temp_raw % 256, temp_raw \div 256, level, flag>>
             \o [i \in 1..MaxStatusLen |-> 0], 1, n)

InitStatus ==
    /\ DecoderInit
    /\ AppInit
    /\ ScriptInit
    /\ CommandInit

\* pkt = self._parse_battery(frame)
ParseBatteryCall ==
    /\ parsed = <<>>
    /\ \E n \in MinStatusLen..MaxStatusLen, tag \in StatusTags,
          temp_raw \in StatusTemps, level \in StatusLevels,
          flag \in StatusFlags :
          LET frame == StatusFrame(n, tag, temp_raw, level, flag)
              r     == ParseBattery(frame)
          IN  /\ chunk' = frame
              /\ parsed' = <<frame>>
              /\ emitted' = r.pkt
              /\ raised' = r.raised
    /\ UNCHANGED <<spectrum_buffer, spectrum_expected_len,
                   spectrum_buffer_start_time, now, log, scriptVars,
                   commandVars, appVars>>

NextStatus == ParseBatteryCall

SpecStatus == InitStatus /\ [][NextStatus]_vars

\* C13: _parse_battery returns a Status record exactly for a frame with tag
\* 0x02, at least 6 bytes, battery byte (frame offset 4) at most 100 and raw
\* temperature LE16(frame[2..3]) in 600..1800 (-40 to 80 degrees), without
\* any checksum; the record carries that level, the temperature raw/10 - 100
\* and is_charging true exactly when the byte at frame offset 5 is non-zero.
C13_StatusAcceptedIffInRange ==
    \A i \in 1..Len(parsed) :
        LET f       == parsed[i]
            ok      == /\ Len(f) >= 6 /\ f[2] = 2 /\ f[5] <= 100
                       /\ f[3] + f[4] * 256 >= 600
                       /\ f[3] + f[4] * 256 <= 1800
        IN  /\ ~raised
            /\ ok <=> Len(emitted) = 1
            /\ ok => /\ emitted[1].type = "battery"
                     /\ emitted[1].level = f[5]
                     /\ emitted[1].temperature = <<f[3] + f[4] * 256 - 1000, 10>>
                     /\ emitted[1].is_charging = (f[6] # 0)
            /\ ~ok => emitted = <<>>

\* C13 witness: a status frame with battery 100 at 80.0 degrees, charging,
\* was accepted
C13_Witness ==
    /\ parsed = <<chunk>> /\ Len(chunk) = 6 /\ chunk[2] = 2 /\ chunk[5] = 100
    /\ chunk[3] + chunk[4] * 256 = 1800 /\ chunk[6] = 128
    /\ Len(emitted) = 1 /\ emitted[1].is_charging

-----------------------------------------------------------------------------
(* Claims on the spectrum header, checked under SpecParse *)

\* The least key of a bin map
FirstKey(bins) == CHOOSE k \in DOMAIN bins : \A j \in DOMAIN bins : k <= j

\* C14: a checksum-valid spectrum frame is rejected exactly when the
\* little-endian value of bytes [2,3] exceeds 2000; otherwise the divisor is
\* 1, 3, 9 for the tags 0x30, 0x31, 0x32, and the first bin is keyed by the
\* value of bytes [2,3] and holds the 24-bit initial value of bytes [4,5,6]
\* over the divisor, the cursor then standing one channel further.
C14_HeaderDecoding ==
    \A i \in 1..Len(parsed) :
        LET f     == parsed[i]
            start == f[3] + f[4] * 256
            d     == IF f[2] = 48 THEN 1 ELSE IF f[2] = 49 THEN 3 ELSE 9
        IN  (SpectrumTagged(f) /\ SpectrumChecksumOk(f)) =>
                /\ ~raised
                /\ emitted = <<>> <=> start > 2000
                /\ start <= 2000 =>
                       /\ emitted[1].div = d
                       /\ FirstKey(emitted[1].bins) = start
                       /\ emitted[1].bins[start]
                            = <<f[7] * 65536 + f[6] * 256 + f[5], d>>
                       /\ emitted[1].last_channel >= start + 1

-----------------------------------------------------------------------------
(* Spectrum decode round trip: a delta sequence is encoded as coding groups *)
(* of a full-resolution frame (tag 0x30, divisor 1), and the frame decoded. *)

\* d as an unsigned two's-complement number of the given width
TwosComplement(d, bits) == IF d < 0 THEN d + 2 ^ bits ELSE d

\* The concatenation of the sequences Piece(1), ..., Piece(n)
RECURSIVE Concat(_, _)
Concat(Piece(_), n) == IF n = 0 THEN <<>> ELSE Concat(Piece, n - 1) \o Piece(n)

\* Type 0: two 4-bit values a byte, high nibble first, the last low nibble
\* of an odd count left zero
EncodeNibbles(ds) ==
    LET pair(k) ==
            <<TwosComplement(ds[2 * k - 1], 4) * 16
                + (IF 2 * k <= Len(ds) THEN TwosComplement(ds[2 * k], 4) ELSE 0)>>
    IN  Concat(pair, (Len(ds) + 1) \div 2)

\* Type 1: one 8-bit value a byte
EncodeBytes(ds) ==
    LET one(k) == <<TwosComplement(ds[k], 8)>>
    IN  Concat(one, Len(ds))

\* Type 2: two 12-bit values in three bytes, the top 12 bits first; the last
\* value of an odd count in two bytes, its low nibble left zero
EncodeTwelves(ds) ==
    LET pair(k) ==
            LET v1 == TwosComplement(ds[2 * k - 1], 12)
            IN  IF 2 * k <= Len(ds)
                THEN LET v2 == TwosComplement(ds[2 * k], 12)
                     IN  <<v1 \div 16, (v1 % 16) * 16 + (v2 \div 256), v2 % 256>>
                ELSE <<v1 \div 16, (v1 % 16) * 16>>
    IN  Concat(pair, (Len(ds) + 1) \div 2)

\* Type 3: one 16-bit value in two bytes, low byte first
EncodeSixteens(ds) ==
    LET one(k) ==
            LET v == TwosComplement(ds[k], 16) IN <<v % 256, v \div 256>>
    IN  Concat(one, Len(ds))

\* Type 4: a group of its own for every value, control byte 0 and the 24-bit
\* value in three bytes, low byte first
EncodeTwentyFours(ds) ==
    LET one(k) ==
            LET v == TwosComplement(ds[k], 24)
            IN  <<0, v % 256, (v \div 256) % 256, v \div 65536>>
    IN  Concat(one, Len(ds))

\* One group g = [type, ds] with its control byte type * 64 + count
EncodeGroup(g) ==
    IF g.type = 0 THEN <<Len(g.ds)>> \o EncodeNibbles(g.ds)
    ELSE IF g.type = 1 THEN <<64 + Len(g.ds)>> \o EncodeBytes(g.ds)
    ELSE IF g.type = 2 THEN <<128 + Len(g.ds)>> \o EncodeTwelves(g.ds)
    ELSE IF g.type = 3 THEN <<192 + Len(g.ds)>> \o EncodeSixteens(g.ds)
    ELSE EncodeTwentyFours(g.ds)

\* The frame of tag 0x30 that starts at channel start with the value initial
\* and carries the groups gs
EncodeFrame(start, initial, gs) ==
    LET data == LET one(k) == EncodeGroup(gs[k]) IN Concat(one, Len(gs))
        body == <<10 + Len(data), 48, start % 256, start \div 256,
                  initial % 256, (initial \div 256) % 256, initial \div 65536>>
                  \o data
    IN  body \o Trailer(body)

\* The deltas a point type can hold: its extremes, -1, 0 and a small value
DeltasOf(type) ==
    LET half == 2 ^ (4 * (type + 1) + (IF type = 4 THEN 4 ELSE 0) - 1)
    IN  {-half, -1, 0, 5, half - 1}

MaxDeltas == 3

MaxPairDeltas == 2

DeltaSeqs(type, n) == UNION {[1..m -> DeltasOf(type)] : m \in 1..n}

\* The sequences of at most MaxPairDeltas deltas that are all extremes
ExtremeSeqs(type) ==
    {q \in DeltaSeqs(type, MaxPairDeltas) :
        \A k \in 1..Len(q) : q[k] \notin {-1, 0, 5}}

CodecStarts == {0, 700}

CodecInitials == {0, 1000, 16777215}

InitCodec ==
    /\ DecoderInit
    /\ AppInit
    /\ ScriptInit
    /\ CommandInit

\* pkt = self._parse_frame(frame) on the frame encoding gs
DecodeEncoded(start, initial, gs) ==
    /\ orig' = EncodeFrame(start, initial, gs)
    /\ groups' = gs
    /\ feed' = <<start, initial>>
    /\ ParseCall(EncodeFrame(start, initial, gs))
    /\ UNCHANGED <<parts, received, commandVars, appVars>>

\* One group of one point type
DecodeOneGroup ==
    /\ orig = <<>>
    /\ \E start \in CodecStarts, initial \in CodecInitials, type \in 0..4 :
          \E ds \in DeltaSeqs(type, MaxDeltas) :
              DecodeEncoded(start, initial, <<[type |-> type, ds |-> ds]>>)

\* Two groups, of the same or of different point types
DecodeTwoGroups ==
    /\ orig = <<>>
    /\ \E t1 \in 0..4, t2 \in 0..4 :
          \E ds1 \in ExtremeSeqs(t1), ds2 \in ExtremeSeqs(t2) :
              DecodeEncoded(700, 1000, <<[type |-> t1, ds |-> ds1],
                                         [type |-> t2, ds |-> ds2]>>)

NextCodec == DecodeOneGroup \/ DecodeTwoGroups

SpecCodec == InitCodec /\ [][NextCodec]_vars

\* The deltas of the groups gs in order
AllDeltas(gs) == LET one(k) == gs[k].ds IN Concat(one, Len(gs))

RECURSIVE SumTo(_, _)
SumTo(ds, n) == IF n = 0 THEN 0 ELSE SumTo(ds, n - 1) + ds[n]

\* C15: for divisor 1 the decoder reconstructs the encoded sequence exactly:
\* bin start holds the initial value and bin start + i holds initial + d1 +
\* ... + di for every i in 1..n, for each of the five point types, and no
\* other bin is emitted.
C15_RoundTrip ==
    groups # <<>> =>
        LET ds      == AllDeltas(groups)
            start   == feed[1]
            initial == feed[2]
        IN  /\ ~raised
            /\ Len(emitted) = 1
            /\ emitted[1].type = "spectrum"
            /\ emitted[1].div = 1
            /\ emitted[1].last_channel = start + Len(ds) + 1
            /\ DOMAIN emitted[1].bins = start..(start + Len(ds))
            /\ \A i \in 0..Len(ds) :
                   emitted[1].bins[start + i] = <<initial + SumTo(ds, i), 1>>

\* C15 witness: a group of three 12-bit deltas, the extremes among them, was
\* decoded back
C15_Witness ==
    /\ Len(groups) = 1 /\ groups[1].type = 2
    /\ groups[1].ds = <<-2048, 2047, -1>>
    /\ Len(emitted) = 1 /\ emitted[1].last_channel = feed[1] + 4

-----------------------------------------------------------------------------
(* Claims on the reassembler's transitions, checked under Spec *)

\* The length a frame's length byte declares lies outside 4..256
BadDeclaredLen(f) == Len(f) >= 1 /\ f[1] \in 1..3

\* C16: a frame shorter than 4 bytes, or declaring a length outside 4..256,
\* or carrying none of the tags 0x02, 0x17, 0x30, 0x31, 0x32, never produces
\* a record, whatever the reassembler state.
C16_StructurallyBadNeverEmits ==
    \A i \in 1..Len(parsed) :
        (\/ Len(parsed[i]) < 4
         \/ BadDeclaredLen(parsed[i])
         \/ parsed[i][2] \notin {2, 23, 48, 49, 50})
        => emitted = <<>>

\* A chunk that looks like the header of a fresh frame: a recognized tag and
\* a declared length in 4..256
HeaderLike(c) ==
    /\ Len(c) >= 2
    /\ c[2] \in {2, 23, 48, 49, 50}
    /\ c[1] = 0 \/ c[1] >= 4

\* The chunk was appended to the pending buffer: the buffer has grown by it,
\* or the frame it completed is the prefix of the grown buffer
Appended ==
    /\ Logged("ADDED")' /\ ~Logged("RESET")'
    /\ IF Len(spectrum_buffer \o chunk') < spectrum_expected_len
       THEN /\ spectrum_buffer' = spectrum_buffer \o chunk'
            /\ spectrum_expected_len' = spectrum_expected_len
            /\ parsed' = <<>>
       ELSE parsed' = <<SubSeq(spectrum_buffer \o chunk', 1,
                               spectrum_expected_len)>>

\* The pending frame was discarded and the chunk handled as in Idle
DiscardedThenIdle ==
    LET idle == Handler(<<>>, 0, spectrum_buffer_start_time, chunk', now')
    IN  /\ log' = <<"RESET">> \o idle.log
        /\ spectrum_buffer' = idle.buffer
        /\ spectrum_expected_len' = idle.expected_len
        /\ emitted' = idle.emitted
        /\ parsed' = idle.parsed

\* C17: while a frame is pending and not timed out, a chunk of at least 10
\* bytes that looks like a fresh frame header discards the pending frame and
\* is handled as in Idle; every other chunk is appended to the buffer.
C17Step ==
    (Assembling /\ now' - spectrum_buffer_start_time <= 500) =>
        IF Len(chunk') >= 10 /\ HeaderLike(chunk')
        THEN DiscardedThenIdle
        ELSE Appended

C17_DesyncFromTenBytes == [][C17Step]_vars

\* C18: between deliveries the expected length is 0 exactly when the buffer
\* is empty and positive exactly when a pending frame with a non-empty
\* buffer exists; completion, timeout and desync clear buffer and expected
\* length together.
C18Inv == (spectrum_expected_len = 0) <=> (spectrum_buffer = <<>>)

C18Step ==
    /\ C18Inv
    /\ C18Inv'
    /\ spectrum_expected_len' >= 0
    /\ (Logged("COMPLETE")' \/ Logged("TIMEOUT")' \/ Logged("RESET")') =>
           \/ spectrum_expected_len' = 0 /\ spectrum_buffer' = <<>>
           \/ /\ Logged("START")'
              /\ spectrum_buffer' = chunk'
              /\ spectrum_expected_len' > 0

C18_ExpectedLenTracksBuffer == [][C18Step]_vars

\* C18 witness: a desync discarded the pending frame and the chunk began a
\* new assembly
C18_Witness ==
    /\ Logged("RESET") /\ Logged("START") /\ spectrum_buffer = chunk
    /\ spectrum_expected_len = 12

\* C19: from Idle the reassembler enters Assembling only on a chunk whose
\* first two bytes carry a spectrum tag and a declared length in 4..256; it
\* then holds buffer = chunk, expected = declared length, start = now, and
\* the chunk emits no record.
C19Step ==
    (Idle /\ Assembling') =>
        /\ Len(chunk') >= 2
        /\ chunk'[2] \in {48, 49, 50}
        /\ chunk'[1] = 0 \/ chunk'[1] >= 4
        /\ spectrum_buffer' = chunk'
        /\ spectrum_expected_len' = (IF chunk'[1] = 0 THEN 256 ELSE chunk'[1])
        /\ spectrum_buffer_start_time' = now'
        /\ emitted' = <<>>

C19_AssemblingOnlyOnPlausibleSpectrum == [][C19Step]_vars

\* C20: a chunk tagged count-rate or status arriving in Idle is parsed at
\* once as a whole frame, and the reassembler state is left as it was: Idle,
\* expected length 0, empty buffer, start timestamp unchanged.
C20Step ==
    (Idle /\ Len(chunk') >= 2 /\ chunk'[2] \in {2, 23}) =>
        /\ parsed' = <<chunk'>>
        /\ log' = <<>>
        /\ Idle'
        /\ spectrum_buffer_start_time' = spectrum_buffer_start_time
        /\ ~raised'
        /\ IF AcceptedCountRate(chunk') \/ AcceptedStatus(chunk')
           THEN Len(emitted') = 1 /\ emitted'[1].type = Variant(chunk')
           ELSE emitted' = <<>>

C20_DirectParseLeavesIdle == [][C20Step]_vars

\* C20 witness: after an earlier assembly had left its start timestamp, an
\* 18-byte count-rate chunk was parsed in Idle and the timestamp kept
C20_Witness ==
    /\ chunk = C18 /\ parsed = <<chunk>> /\ log = <<>> /\ Len(emitted) = 1
    /\ Idle /\ spectrum_buffer_start_time = HalfMs /\ now > HalfMs + TimeoutMs

\* C21: the pending buffer holds the chunks received since the assembly
\* started, in arrival order; when an appended chunk makes it at least as
\* long as the expected length, the frame dispatched is its first
\* expected-length bytes, the pending state is Idle even if the dispatch
\* raises, and nothing beyond the expected length is kept.
C21Step ==
    LET all     == spectrum_buffer \o chunk'
        pending == /\ Assembling
                   /\ now' - spectrum_buffer_start_time <= 500
                   /\ ~(HeaderLike(chunk') /\ Len(chunk') > 10)
    IN  /\ Logged("START")' => spectrum_buffer' = chunk'
        /\ (pending /\ Len(all) < spectrum_expected_len) =>
              /\ spectrum_buffer' = all
              /\ spectrum_expected_len' = spectrum_expected_len
              /\ parsed' = <<>>
        /\ (pending /\ Len(all) >= spectrum_expected_len) =>
              /\ Logged("COMPLETE")'
              /\ parsed' = <<SubSeq(all, 1, spectrum_expected_len)>>
              /\ Idle'
        /\ Logged("COMPLETE")' => pending /\ Len(all) >= spectrum_expected_len

C21_CompletionSlicesAndClears == [][C21Step]_vars

\* C21 witness: a 13-byte buffer completed a 12-byte frame, whose record was
\* emitted, and the byte beyond it is gone
C21_Witness ==
    /\ Logged("COMPLETE") /\ chunk = One /\ parsed = <<S12>>
    /\ Len(emitted) = 1 /\ Idle

\* C24: a pending frame is abandoned by the timeout only after 500 ms without
\* a chunk: while a frame is pending, a chunk that arrives less than 500 ms
\* after the chunk before it does not time the frame out, however long the
\* assembly has lasted.
C24Step ==
    (Assembling /\ now' - now < 500) => ~Logged("TIMEOUT")'

C24_TimeoutOnlyAfterInactivity == [][C24Step]_vars

-----------------------------------------------------------------------------
(* The decoder and the clock: time passes with or without a notification.   *)
(* parts is 1 after a step that delivered a chunk and 0 after a step in     *)
(* which only time went by.                                                 *)

InitClock ==
    /\ DecoderInit
    /\ AppInit
    /\ ScriptInit
    /\ CommandInit

\* A notification arrives dt ms after the step before
Arrive ==
    \E raw \in Chunks, dt \in Delays :
        /\ now + dt <= MaxNow
        /\ Notify(raw, dt)
        /\ parts' = 1
        /\ UNCHANGED <<feed, orig, groups, received, commandVars, appVars>>

\* Mutant of Elapse: a background timer drops a pending frame gone stale
ElapseWithTimer ==
    \E dt \in Delays :
        /\ now + dt <= MaxNow
        /\ now' = now + dt
        /\ parts' = 0
        /\ IF TimedOut(spectrum_expected_len, spectrum_buffer_start_time,
                       now + dt)
           THEN spectrum_buffer' = <<>> /\ spectrum_expected_len' = 0
           ELSE UNCHANGED <<spectrum_buffer, spectrum_expected_len>>
        /\ UNCHANGED <<spectrum_buffer_start_time, chunk, emitted, log,
                       parsed, raised, feed, orig, groups, received,
                       commandVars, appVars>>

\* dt ms go by and no notification arrives: no code of the worker runs
Elapse ==
    \E dt \in Delays :
        /\ now + dt <= MaxNow
        /\ now' = now + dt
        /\ parts' = 0
        /\ UNCHANGED <<spectrum_buffer, spectrum_expected_len,
                       spectrum_buffer_start_time, chunk, emitted, log,
                       parsed, raised, feed, orig, groups, received,
                       commandVars, appVars>>

NextClock == Arrive \/ Elapse

SpecClock == InitClock /\ [][NextClock]_vars

\* C23: time going by without a chunk changes nothing, so a stale pending
\* frame stays pending; when a chunk arrives the frame is timed out exactly
\* if the arrival time is more than 500 ms after the start stamp, and apart
\* from that reset and the start stamp of a new assembly the handler does
\* what it would do had no time gone by.
C23Step ==
    LET still == Handler(spectrum_buffer, spectrum_expected_len,
                         spectrum_buffer_start_time, chunk',
                         spectrum_buffer_start_time)
        stale == Assembling /\ now' - spectrum_buffer_start_time > 500
    IN  /\ parts' = 0 =>
              UNCHANGED <<spectrum_buffer, spectrum_expected_len,
                          spectrum_buffer_start_time>>
        /\ parts' = 1 =>
              /\ Logged("TIMEOUT")' <=> stale
              /\ ~stale =>
                    /\ spectrum_buffer' = still.buffer
                    /\ spectrum_expected_len' = still.expected_len
                    /\ emitted' = still.emitted
                    /\ parsed' = still.parsed
                    /\ raised' = still.raised
                    /\ log' = still.log
              /\ spectrum_buffer_start_time' =
                    IF Logged("START")' THEN now'
                    ELSE spectrum_buffer_start_time

C23_TimeoutOnlyOnArrival == [][C23Step]_vars

\* C23 witness: a frame is pending more than 500 ms after its start and no
\* chunk has arrived since
C23_Witness ==
    /\ parts = 0 /\ Partial
    /\ now - spectrum_buffer_start_time > TimeoutMs + HalfMs

-----------------------------------------------------------------------------
(* Coding groups: _parse_frame on spectrum frames made of a header, one or  *)
(* two control bytes each followed by filler bytes, and a correct checksum; *)
(* the length byte declares the frame's length, less, or more.              *)

GroupTags == {48, 49, 50}

\* Start channels: the first, the last before the decoding limit of tag
\* 0x30, and the largest accepted
GroupStarts == {0, 1808, 2000}

\* Control bytes: 0, and for each point type 0..3 the counts 0 to 3 and 63
ControlBytes == {t * 64 + n : t \in 0..3, n \in {0, 1, 2, 3, 63}}

\* The bytes that follow a control byte
Pattern == <<18, 241, 0, 127, 128, 255, 7, 9>>

Fill(k) == [i \in 1..k |-> Pattern[((i - 1) % Len(Pattern)) + 1]]

\* 32, 95 and 126 bytes hold 63 values of 4, 12 and 16 bits
FillSizes == (0..6) \cup {32, 95, 126}

\* What the length byte declares beyond the frame's length
Slacks == {-2, 0, 3}

\* The frame of the given tag and start channel with initial value 1000 and
\* the payload data, its length byte off by slack
GroupFrame(tag, start, data, slack) ==
    LET body == <<10 + Len(data) + slack, tag, start % 256, start \div 256,
                  232, 3, 0>> \o data
    IN  body \o Trailer(body)

InitGroups ==
    /\ DecoderInit
    /\ AppInit
    /\ ScriptInit
    /\ CommandInit

\* pkt = self._parse_frame(frame); feed keeps the payload
DecodeGroups(tag, start, data, slack) ==
    \E f \in {GroupFrame(tag, start, data, slack)} :
        /\ orig' = f
        /\ feed' = data
        /\ ParseCall(f)
        /\ UNCHANGED <<parts, groups, received, commandVars, appVars>>

\* One control byte and k filler bytes
DecodeGroup ==
    /\ orig = <<>>
    /\ \E tag \in GroupTags, start \in GroupStarts, b \in ControlBytes :
          \E k \in FillSizes, slack \in Slacks :
              DecodeGroups(tag, start, <<b>> \o Fill(k), slack)

\* Two control bytes of counts up to 2 with 0 to 3 filler bytes each
DecodeGroupPair ==
    /\ orig = <<>>
    /\ \E b1 \in ControlBytes, b2 \in ControlBytes :
          \E k1 \in 0..3, k2 \in 0..3 :
              /\ b1 % 64 < 3
              /\ b2 % 64 < 3
              /\ DecodeGroups(48, 0, <<b1>> \o Fill(k1) \o <<b2>> \o Fill(k2),
                              0)

NextGroups == DecodeGroup \/ DecodeGroupPair

SpecGroups == InitGroups /\ [][NextGroups]_vars

\* The decoding limit of a frame: the declared length less the checksum
DeclaredLimit(f) == (IF f[1] = 0 THEN 256 ELSE f[1]) - 3

\* C25: no bin with a key above (1800 div divisor) + 10 is emitted.
C25_NoBinBeyondSafetyMargin ==
    \A i \in 1..Len(emitted) :
        \A k \in DOMAIN emitted[i].bins : k <= (1800 \div emitted[i].div) + 10

\* C26: every control byte and every delta byte the decoder reads lies at a
\* frame index below the declared length less 3 and below the frame's length;
\* the header's last index is 6, so a higher index is a coding-group read.
C26_ReadsBelowChecksum ==
    orig # <<>> =>
        LET s == SpectrumDecode(orig)
        IN  s.read > 6 =>
                /\ s.read < DeclaredLimit(orig)
                /\ s.read < Len(orig)

\* A group of 63 16-bit values is cut short by the limit of a frame whose
\* length byte is exact: the last byte before the checksum has been read.
C26_Witness ==
    /\ orig # <<>>
    /\ feed[1] = 255
    /\ DeclaredLimit(orig) = Len(orig) - 3
    /\ SpectrumDecode(orig).read = Len(orig) - 4
    /\ Len(emitted) = 1

\* The bytes a group of n values of the point type pt takes after its control
\* byte: 4, 8, 12, 16 bits a value for pt = 0..3, and 24 bits for pt = 4
GroupBytes(pt, n) ==
    IF pt = 0 THEN (n + 1) \div 2
    ELSE IF pt = 1 THEN n
    ELSE IF pt = 2 THEN (n \div 2) * 3 + (n % 2) * 2
    ELSE IF pt = 3 THEN 2 * n
    ELSE 3

\* The first coding group of the frame f is decoded: the while loop is entered
FirstGroupDecoded(f) ==
    /\ 7 < DeclaredLimit(f)
    /\ 7 < Len(f)
    /\ SpectrumStart(f).x < (1800 \div SpectrumDiv(f[2])) + 10

\* The decoding state after the first coding group of the frame f
AfterFirstGroup(f) ==
    Group(f, DeclaredLimit(f), SpectrumDiv(f[2]), SpectrumStart(f))

\* C27: the first group's control byte b stands for one 24-bit value when
\* b = 0 and for b mod 64 values of point type b div 64 otherwise: the group
\* never emits more than that many values, and when the bytes before the
\* limit suffice it emits exactly that many and takes the bytes they need; a
\* non-zero control byte of count 0 emits nothing.
C27_ControlByteIsTypeAndCount ==
    (orig # <<>> /\ FirstGroupDecoded(orig)) =>
        LET b     == orig[8]
            pt    == IF b = 0 THEN 4 ELSE b \div 64
            n     == IF b = 0 THEN 1 ELSE b % 64
            room  == Min(DeclaredLimit(orig), Len(orig)) - 8
            s     == AfterFirstGroup(orig)
            count == s.x - SpectrumStart(orig).x
        IN  /\ count <= n
            /\ Cardinality(DOMAIN s.bins) = 1 + count
            /\ room >= GroupBytes(pt, n) =>
                    /\ count = n
                    /\ s.pos = 8 + GroupBytes(pt, n)
                    /\ ~s.brk

\* Control byte 0 before at least three bytes: one value, three bytes taken
C27_Witness ==
    /\ orig # <<>>
    /\ FirstGroupDecoded(orig)
    /\ orig[8] = 0
    /\ AfterFirstGroup(orig).x = SpectrumStart(orig).x + 1
    /\ AfterFirstGroup(orig).pos = 11
    /\ Len(emitted) = 1

-----------------------------------------------------------------------------
(* Count-rate frames with a correct checksum delivered whole to the worker  *)
(* in Idle: 13 bytes with two triplets; 20 and 21 bytes filled with         *)
(* triplets; 46 bytes with thirteen triplets; 14 to 22 bytes with the       *)
(* length byte 18 or their own length and a chosen byte at index 14.        *)

\* The value bytes of a triplet as they lie in the frame: 600, 300, 0, 65535
\* and 29999 when the first byte is the low one
ValueBytes == {<<88, 2>>, <<44, 1>>, <<0, 0>>, <<255, 255>>, <<47, 117>>}

TripletTypes == {0, 1, 2}

\* The count-rate frame of the length byte lb and the bytes data after the
\* tag, with the checksum stored over the bytes at len-4 and len-3
RateFrame(lb, data) == SealCps(SealCps(<<lb, 23>> \o data))

PairFrames ==
    {RateFrame(13, <<t1>> \o v1 \o <<t2>> \o v2 \o <<0, 0, 0, 0, 13>>) :
        t1 \in TripletTypes, v1 \in ValueBytes,
        t2 \in TripletTypes, v2 \in ValueBytes}

\* Six triplets of type t and the values 1 to 6, low byte first
SixTriplets(t) == [i \in 1..18 |-> IF i % 3 = 1 THEN t
                                   ELSE IF i % 3 = 2 THEN (i + 1) \div 3
                                   ELSE 0]

\* Thirteen triplets of type 2, but for the triplet p of type t and value v
\* and the last triplet of type u and value 300
ThirteenTriplets(p, t, v, u) ==
    [i \in 1..39 |-> IF (i - 1) \div 3 = p
                         THEN (<<t>> \o v)[((i - 1) % 3) + 1]
                     ELSE IF (i - 1) \div 3 = 12
                         THEN <<u, 44, 1>>[((i - 1) % 3) + 1]
                     ELSE <<2, 9, 9>>[((i - 1) % 3) + 1]]

FilledFrames ==
    {RateFrame(20, SixTriplets(t)) : t \in 0..1}
      \cup {RateFrame(21, SixTriplets(t) \o <<0>>) : t \in 0..1}
      \cup {RateFrame(46, ThirteenTriplets(p, t, v, u) \o <<0, 0, 0, 0, 46>>) :
               p \in {0, 5, 11}, t \in 0..1, v \in ValueBytes, u \in 0..1}

\* Frames of len bytes whose byte at index 14, where there is one, is flag
FlagFrame(lb, len, flag) ==
    RateFrame(lb, [i \in 1..(len - 2) |->
                     IF i = 13 THEN flag
                     ELSE <<0, 88, 2, 1, 44, 1, 1, 0, 0, 0, 0, 0>>[((i - 1) % 12)
                                                                    + 1]])

FlagFrames ==
    {FlagFrame(lb, len, flag) :
        lb \in {13, 17, 18, 19, 22}, len \in {13, 14, 15, 18, 22},
        flag \in {0, 1, 2, 3, 255}}

InitRate ==
    /\ DecoderInit
    /\ AppInit
    /\ ScriptInit
    /\ CommandInit

\* self._notification_handler(handle, f) for a frame f of the set frames
DeliverRate(frames) ==
    /\ orig = <<>>
    /\ \E f \in frames :
          /\ CpsChecksumOk(f)
          /\ orig' = f
          /\ Notify(f, HalfMs)
    /\ UNCHANGED <<feed, parts, groups, received, commandVars, appVars>>

DeliverPair == DeliverRate(PairFrames)

DeliverFilled == DeliverRate(FilledFrames)

DeliverFlagged == DeliverRate(FlagFrames)

NextRate == DeliverPair \/ DeliverFilled \/ DeliverFlagged

SpecRate == InitRate /\ [][NextRate]_vars

\* The triplets a count-rate frame is read for: 2 up to 20 bytes and 12
\* beyond, and no more than lie whole within the frame
TripletsRead(f) == Min(IF Len(f) <= 20 THEN 2 ELSE 12, (Len(f) - 2) \div 3)

\* The last of the triplets read whose dataType is t, or -1
LastOfType(f, t) ==
    LET ks == {k \in 0..(TripletsRead(f) - 1) : f[3 * k + 3] = t}
    IN  IF ks = {} THEN -1 ELSE CHOOSE k \in ks : \A j \in ks : j <= k

\* The two bytes after the dataType of triplet k, low byte first
RawLowFirst(f, k) == f[3 * k + 4] + 256 * f[3 * k + 5]

\* The two bytes after the dataType of triplet k, big-endian
RawBigEndian(f, k) == 256 * f[3 * k + 4] + f[3 * k + 5]

\* The field fed by the triplets of type t: unpack(rawValue) / d, or 0
RateField(f, t, d, Raw(_, _)) ==
    IF LastOfType(f, t) = -1 THEN Quot(0, 1)
    ELSE Quot(UnpackValue(Raw(f, LastOfType(f, t))), d)

RateRecord(f, Raw(_, _)) ==
    [type      |-> "cps",
     cps       |-> RateField(f, 0, 600, Raw),
     dose_rate |-> RateField(f, 1, 60000, Raw)]

\* C28: the record of an accepted count-rate frame is built from the
\* triplets at frame offsets 2 + 3k that lie whole within the frame, at most 2
\* of them up to 20 bytes and at most 12 beyond; rawValue is the 16-bit value
\* of the two bytes after dataType with the low byte first; the last triplet
\* of dataType 0 gives rate = unpack(rawValue) / 600, the last of dataType 1
\* gives doseRate = unpack(rawValue) / 600 / 100, other dataTypes are
\* ignored and a field no triplet feeds is 0.
C28_TripletsLowByteFirst ==
    orig # <<>> =>
        /\ ~raised
        /\ emitted # <<>> => emitted = <<RateRecord(orig, RawLowFirst)>>
        /\ AcceptedCountRate(orig) => emitted # <<>>

\* C28 witness: a frame of 46 bytes whose thirteenth triplet has dataType 0
\* yields the rate of its first triplet, 600 / 600, which is not what the
\* big-endian reading of the bytes 88, 2 gives
C28_Witness ==
    /\ orig # <<>>
    /\ Len(orig) = 46
    /\ orig[39] = 0
    /\ LastOfType(orig, 0) = 0
    /\ emitted = <<RateRecord(orig, RawLowFirst)>>
    /\ emitted[1].cps = Quot(PyInt(600), 600)
    /\ emitted[1].cps # RateField(orig, 0, 600, RawBigEndian)

\* C28 as stated: rawValue is the big-endian value of the two bytes.
C28_TripletsBigEndian ==
    orig # <<>> =>
        /\ ~raised
        /\ emitted # <<>> => emitted = <<RateRecord(orig, RawBigEndian)>>
        /\ AcceptedCountRate(orig) => emitted # <<>>

\* C29: a count-rate frame of 13 bytes or more with a correct checksum yields
\* no record exactly when its length byte is 18 and its byte at frame offset
\* 14 is greater than 1; with any other length byte it yields a record.
C29_OverloadOnlyForLength18 ==
    (orig # <<>> /\ Len(orig) >= 13 /\ CpsChecksumOk(orig)) =>
        /\ emitted = <<>> <=>
              (orig[1] = 18 /\ Len(orig) > 14 /\ orig[15] > 1)
        /\ orig[1] # 18 => OneCountRate

\* C29 witness: the length byte is 18, the flag is 2, the checksum is
\* correct and no record is emitted
C29_Witness ==
    /\ orig # <<>>
    /\ CpsChecksumOk(orig)
    /\ orig[1] = 18
    /\ Len(orig) = 18
    /\ orig[15] = 2
    /\ emitted = <<>>
    /\ ~raised

-----------------------------------------------------------------------------
(* Every 16-bit raw value: the 13-byte count-rate frames whose first        *)
(* triplet has dataType 0 and a raw value below 2^15 and whose second has   *)
(* dataType 1 and the raw value 2^15 above the first, each delivered whole  *)
(* to a worker in Idle.                                                     *)

UnpackFrame(v) ==
    RateFrame(13, <<0, v % 256, v \div 256,
                    1, v % 256, (v \div 256) + 128, 0, 0, 0, 0, 13>>)

InitUnpack ==
    /\ DecoderInit
    /\ AppInit
    /\ CommandInit
    /\ \E v \in 0..(2 ^ 15 - 1) : orig = UnpackFrame(v)
    /\ parts = 1
    /\ feed = orig
    /\ groups = <<>>
    /\ received = <<>>

\* self._notification_handler(handle, frame)
DeliverUnpack ==
    /\ parts = 1
    /\ Notify(feed, HalfMs)
    /\ feed' = <<>>
    /\ parts' = 0
    /\ received' = received \o emitted'
    /\ UNCHANGED <<orig, groups, commandVars, appVars>>

NextUnpack == DeliverUnpack

SpecUnpack == InitUnpack /\ [][NextUnpack]_vars

\* m * 10^e laid out by position: LimbBase is 10^7, so the e zeros shift the
\* digits of m above 10^(7 - e) into the high limb
Scaled(m, e) ==
    IF e >= 7 THEN <<m * 10 ^ (e - 7), 0>>
    ELSE <<m \div 10 ^ (7 - e), (m % 10 ^ (7 - e)) * 10 ^ e>>

\* C30: for every 16-bit raw value v, _unpack_value(v) is
\* (v mod 6000) * 10^(v div 6000), whole: the record's rate is that number
\* over 600 and its dose rate that number over 600 * 100.
C30_UnpackIsMantissaTimesPowerOfTen ==
    parts = 0 =>
        LET v0 == RawLowFirst(orig, 0)
            v1 == RawLowFirst(orig, 1)
        IN  /\ v0 \div 6000 <= 10 /\ v1 \div 6000 <= 10
            /\ emitted =
                  <<[type      |-> "cps",
                     cps       |-> Quot(Scaled(v0 % 6000, v0 \div 6000), 600),
                     dose_rate |-> Quot(Scaled(v1 % 6000, v1 \div 6000),
                                        60000)]>>

\* C30 witness: the raw value 65535 is unpacked to 5535 * 10^10
C30_Witness ==
    /\ parts = 0
    /\ RawLowFirst(orig, 1) = 65535
    /\ Len(emitted) = 1
    /\ emitted[1].dose_rate = Quot(<<5535000, 0>>, 60000)

-----------------------------------------------------------------------------
(* The keys of the bin map of a spectrum record *)

\* The first channel of the frame f: start_ch // div
FirstChannel(f) == (f[3] + f[4] * 256) \div SpectrumDiv(f[2])

\* C38: the keys of the bin map of every spectrum record are the integers
\* from start div divisor up to last_channel - 1, none missing and none
\* written twice, so last_channel is start div divisor plus the number of
\* bins, and the map is never empty.
C38_BinKeysAreContiguous ==
    \A i \in 1..Len(emitted) :
        emitted[i].type = "spectrum" =>
            LET keys == DOMAIN emitted[i].bins
                last == emitted[i].last_channel
            IN  /\ keys # {}
                /\ keys = FirstChannel(orig)..(last - 1)
                /\ last = FirstChannel(orig) + Cardinality(keys)
                /\ Cardinality(keys) =
                      1 + SpectrumDecode(orig).x - SpectrumStart(orig).x

\* C38 witness: the first bin and a group of 63 values from start channel 1808
\* of tag 0x31: the keys 602 to 665
C38_Witness ==
    /\ Len(emitted) = 1
    /\ emitted[1].type = "spectrum"
    /\ emitted[1].div = 3
    /\ DOMAIN emitted[1].bins = 602..665
    /\ emitted[1].last_channel = 666

-----------------------------------------------------------------------------
(* Termination of _parse_spectrum: the passes of its loops, watched *)

\* One pass of the inner loop of a group of point type pt
InnerStep(frame, limit, div, points_amount, pt, u) ==
    IF pt = 0 THEN NibbleStep(frame, limit, div, points_amount, u)
    ELSE IF pt = 1 THEN ByteStep(frame, limit, div, points_amount, u)
    ELSE IF pt = 2 THEN TwelveStep(frame, limit, div, points_amount, u)
    ELSE IF pt = 3 THEN SixteenStep(frame, limit, div, points_amount, u)
    ELSE u

\* c = [u, n, ok]: the state of an inner loop, the passes it has made and
\* whether each of them moved the cursor forward
InnerWatch(frame, limit, div, points_amount, pt, c) ==
    LET next == InnerStep(frame, limit, div, points_amount, pt, c.u)
    IN  IF next = c.u THEN c
        ELSE [u  |-> next,
              n  |-> c.n + 1,
              ok |-> c.ok /\ next.pos > c.u.pos]

\* The inner loop of the group whose control byte is at s.pos, watched
GroupWatch(frame, limit, div, s) ==
    LET b == At(frame, s.pos)
        t == [Read(s, s.pos) EXCEPT !.pos = @ + 1, !.amount = 0]
    IN  Iterate(LAMBDA c : InnerWatch(frame, limit, div, PointsAmount(b),
                                      PointType(b), c),
                PointsAmount(b), [u |-> t, n |-> 0, ok |-> TRUE])

\* c = [s, outer, inner, ok]: the state of the outer loop, the passes it and
\* the inner loops have made, and whether each of them moved the cursor
\* forward
OuterWatch(frame, limit, div, max_channel, c) ==
    LET next == SpectrumStep(frame, limit, div, max_channel, c.s)
        g    == GroupWatch(frame, limit, div, c.s)
    IN  IF next = c.s THEN c
        ELSE [s     |-> next,
              outer |-> c.outer + 1,
              inner |-> c.inner + g.n,
              ok    |-> /\ c.ok
                        /\ g.ok
                        /\ next.pos > c.s.pos
                        /\ PointType(At(frame, c.s.pos)) < 4 => g.u = next]

\* The loops of _parse_spectrum on the frame f, watched
Watched(f) ==
    LET div == SpectrumDiv(f[2])
    IN  Iterate(LAMBDA c : OuterWatch(f, DeclaredLimit(f), div,
                                      (1800 \div div) + 10, c),
                Len(f),
                [s |-> SpectrumStart(f), outer |-> 0, inner |-> 0,
                 ok |-> TRUE])

\* C39: _parse_spectrum terminates: every pass of the outer loop and of an
\* inner loop moves the cursor forward, also in a group of count 0 and in a
\* group the limit cuts short; the cursor starts at 7 and never passes the
\* declared length less 3, so the passes number at most that; when they are
\* over the loop condition is false or the loop was left by break.
C39_EveryPassAdvancesTheCursor ==
    orig # <<>> =>
        LET c     == Watched(orig)
            div   == SpectrumDiv(orig[2])
            limit == DeclaredLimit(orig)
        IN  /\ c.ok
            /\ c.s = SpectrumDecode(orig)
            /\ SpectrumStep(orig, limit, div, (1800 \div div) + 10, c.s) = c.s
            /\ c.outer + c.inner <= c.s.pos - 7
            /\ c.s.pos <= (IF limit > 7 THEN limit ELSE 7)
            /\ c.s.pos <= (IF Len(orig) > 7 THEN Len(orig) ELSE 7)
            /\ c.outer + c.inner <= limit

\* C39 witness: a group of count 0, then a group of two 16-bit values the limit
\* cuts after the first, then control byte 0 without its three bytes: three
\* outer passes, one inner pass, left by break
C39_Witness ==
    /\ feed = <<64, 194, 18, 241, 0>>
    /\ Len(emitted) = 1
    /\ Watched(orig).outer = 3
    /\ Watched(orig).inner = 1
    /\ Watched(orig).s.pos = 12
    /\ Watched(orig).s.brk

-----------------------------------------------------------------------------
(* The frames that reach _parse_spectrum *)

\* p is a prefix of q
IsPrefix(p, q) == Len(p) <= Len(q) /\ SubSeq(q, 1, Len(p)) = p

\* A pending buffer starts as the spectrum-tagged chunk that opened the
\* assembly, with the length that chunk declares, and while the assembly lasts
\* it only grows at its end.  A frame _parse_frame hands to _parse_spectrum (4
\* bytes or more, spectrum-tagged) comes from a completion: it is the first
\* expected-length bytes of the buffer and the chunk, as long as its length
\* byte says, and it and the buffer start alike; the chunk of the call itself
\* is never parsed when it is spectrum-tagged.
C40Step ==
    /\ Logged("START")' =>
          /\ spectrum_buffer' = chunk'
          /\ spectrum_expected_len' = DeclaredLen(chunk')
          /\ chunk'[2] \in SPECTRUM_TYPES
          /\ parsed' = <<>>
    /\ (Assembling' /\ ~Logged("START")') =>
          /\ Assembling
          /\ IsPrefix(spectrum_buffer, spectrum_buffer')
          /\ spectrum_expected_len' = spectrum_expected_len
    /\ Assembling =>
          /\ Len(spectrum_buffer) >= 2
          /\ spectrum_buffer[2] \in SPECTRUM_TYPES
          /\ spectrum_expected_len = DeclaredLen(spectrum_buffer)
    /\ \A i \in 1..Len(parsed') :
          IsSpectrum(parsed'[i]) =>
              /\ Logged("COMPLETE")'
              /\ ~Logged("START")'
              /\ Assembling
              /\ parsed' = <<SubSeq(spectrum_buffer \o chunk', 1,
                                    spectrum_expected_len)>>
              /\ Len(parsed'[i]) = DeclaredLen(parsed'[i])
              /\ \/ IsPrefix(spectrum_buffer, parsed'[i])
                 \/ IsPrefix(parsed'[i], spectrum_buffer)
    /\ (~Logged("COMPLETE")' /\ Len(chunk') >= 2
            /\ chunk'[2] \in SPECTRUM_TYPES) => parsed' = <<>>

MaxWorkers == 3
MaxTasks == 1
MaxTimers == 1
MaxTicks == 1

\* The titles of the tabs, by index + 1
TabTitles == <<"Spectrum", "CPS / Dose">>

\* The HELLO packet of connect()
Hello == <<255, 238, 238, 23, 100, 143, 50, 18, 0, 100, 23, 32, 143, 14>>

\* The payload of send_ping with the time least significant byte first
PingPayloadLittleEndian(tab, t) ==
    <<18, tab % 256, t % 256, (t \div 256) % 256, (t \div 65536) % 256,
      (t \div 16777216) % 256>>

\* payload = bytes([0x12, tab & 0xFF, unix >> 24 & 0xFF, ..., unix & 0xFF])
PingPayload(tab, t) ==
    <<18, tab % 256, (t \div 16777216) % 256, (t \div 65536) % 256,
      (t \div 256) % 256, t % 256>>

\* BleWorker.__init__ followed by the start of connect(): the client is
\* created and client.connect() is awaited
NewWorker ==
    [pc |-> "client_connect", connected |-> FALSE, link |-> FALSE,
     notify |-> "never", hellos |-> 0,
     tx |-> [op |-> "none", tab |-> 0, at |-> 0, bytes |-> <<>>,
             pc |-> "client_connect"]]

\* write_gatt_char on worker w: the TX characteristic takes the bytes; tx
\* keeps them with the tab and the time they were built from (0 for the
\* HELLO literal) and with where connect() stood, hellos counts the HELLOs
WriteGatt(w, op, tab, at, bytes) ==
    [workers EXCEPT
        ![w].tx = [op |-> op, tab |-> tab, at |-> at, bytes |-> bytes,
                   pc |-> workers[w].pc],
        ![w].hellos = IF op = "hello" THEN @ + 1 ELSE @]

\* MainWindow._reset_ui
ResetUi ==
    /\ connected' = FALSE
    /\ connect_btn' = TRUE
    /\ disconnect_btn' = FALSE

\* MainWindow._on_connection_lost, the slot of every worker's connection_lost
OnConnectionLost ==
    /\ ping_timer' = FALSE
    /\ ResetUi
    /\ reconnect_attempts' = 0
    /\ reconnect_timers' = reconnect_timers + 1
    /\ UNCHANGED <<ble_worker, current_tab>>

\* MainWindow._send_ping with self.connected = conn and currentIndex() =
\* index: the coroutines pending after it
SendPing(conn, index) ==
    IF ~conn \/ ble_worker = 0 THEN tasks
    ELSE Append(tasks, [op |-> "send_ping", w |-> ble_worker,
                        tab |-> IF index = 0 THEN 1 ELSE 0,
                        view |-> index, pc |-> "start"])

\* tasks without its i-th element
Without(i) == SubSeq(tasks, 1, i - 1) \o SubSeq(tasks, i + 1, Len(tasks))

\* The Connect button: MainWindow._on_connect
OnConnect ==
    /\ connect_btn
    /\ Len(workers) < MaxWorkers
    /\ connect_btn' = FALSE
    /\ workers' = Append(workers, NewWorker)
    /\ ble_worker' = Len(workers) + 1
    /\ UNCHANGED <<connected, disconnect_btn, current_tab, ping_timer,
                   reconnect_attempts, reconnect_timers, tasks, unix>>
    /\ UNCHANGED protocolVars

\* connect() raises inside _do_connect: the except branch
ConnectFailed(w) ==
    /\ workers' = [workers EXCEPT ![w].pc = "failed"]
    /\ connect_btn' = TRUE
    /\ UNCHANGED <<ble_worker, connected, disconnect_btn, current_tab,
                   ping_timer, reconnect_attempts, reconnect_timers, tasks,
                   unix>>

\* client.connect() returns or raises
ClientConnect(w) ==
    /\ workers[w].pc = "client_connect"
    /\ \E ok \in BOOLEAN :
        IF ok
        THEN /\ workers' = [workers EXCEPT ![w].pc = "start_notify",
                                           ![w].link = TRUE]
             /\ UNCHANGED <<windowVars, tasks, unix>>
        ELSE ConnectFailed(w)
    /\ UNCHANGED protocolVars

\* start_notify returns: self.connected = True and the first HELLO is
\* written; on a lost link start_notify or the write raises
StartNotify(w) ==
    /\ workers[w].pc = "start_notify"
    /\ IF workers[w].link
       THEN /\ workers' =
                 [WriteGatt(w, "hello", 0, 0, Hello) EXCEPT
                     ![w].pc = "hello1", ![w].connected = TRUE,
                     ![w].notify = "on"]
            /\ UNCHANGED <<windowVars, tasks, unix>>
       ELSE ConnectFailed(w)
    /\ UNCHANGED protocolVars

\* The first write returns and asyncio.sleep(0.2) starts
HelloWritten(w) ==
    /\ workers[w].pc = "hello1"
    /\ IF workers[w].link
       THEN /\ workers' = [workers EXCEPT ![w].pc = "sleep"]
            /\ UNCHANGED <<windowVars, tasks, unix>>
       ELSE ConnectFailed(w)
    /\ UNCHANGED protocolVars

\* The sleep ends and the second HELLO is written
Slept(w) ==
    /\ workers[w].pc = "sleep"
    /\ IF workers[w].link
       THEN /\ workers' =
                 [WriteGatt(w, "hello", 0, 0, Hello) EXCEPT ![w].pc = "hello2"]
            /\ UNCHANGED <<windowVars, tasks, unix>>
       ELSE ConnectFailed(w)
    /\ UNCHANGED protocolVars

\* The second write returns, connect() returns and _do_connect goes on:
\* connected, the buttons, the ping timer and _send_ping
DoConnect(w) ==
    /\ workers[w].pc = "hello2"
    /\ IF workers[w].link
       THEN /\ Len(tasks) < MaxTasks
            /\ workers' = [workers EXCEPT ![w].pc = "done"]
            /\ connected' = TRUE
            /\ connect_btn' = FALSE
            /\ disconnect_btn' = TRUE
            /\ ping_timer' = TRUE
            /\ tasks' = SendPing(TRUE, current_tab)
            /\ UNCHANGED <<ble_worker, current_tab, reconnect_attempts,
                           reconnect_timers, unix>>
       ELSE ConnectFailed(w)
    /\ UNCHANGED protocolVars

\* The link of worker w drops: the client's disconnected_callback,
\* BleWorker._on_disconnect, emits connection_lost
LinkLost(w) ==
    /\ workers[w].link
    /\ reconnect_timers < MaxTimers
    /\ workers' = [workers EXCEPT ![w].link = FALSE, ![w].connected = FALSE]
    /\ OnConnectionLost
    /\ UNCHANGED <<tasks, unix>>
    /\ UNCHANGED protocolVars

\* The Disconnect button: MainWindow._on_disconnect
OnDisconnect ==
    /\ disconnect_btn
    /\ Len(tasks) < MaxTasks
    /\ ping_timer' = FALSE
    /\ tasks' = IF ble_worker = 0 THEN tasks
                ELSE Append(tasks, [op |-> "disconnect", w |-> ble_worker,
                                    tab |-> 0, view |-> 0, pc |-> "start"])
    /\ ResetUi
    /\ UNCHANGED <<ble_worker, current_tab, reconnect_attempts,
                   reconnect_timers, workers, unix>>
    /\ UNCHANGED protocolVars

\* BleWorker.disconnect: on a live link stop_notify and client.disconnect(),
\* which may or may not run the disconnected_callback
Disconnect(i) ==
    LET w == tasks[i].w IN
    /\ tasks[i].op = "disconnect"
    /\ tasks' = Without(i)
    /\ IF workers[w].link
       THEN \E callback \in BOOLEAN :
            /\ workers' = [workers EXCEPT ![w].link = FALSE,
                                          ![w].notify = "off",
                                          ![w].connected = FALSE]
            /\ IF callback
               THEN reconnect_timers < MaxTimers /\ OnConnectionLost
               ELSE UNCHANGED windowVars
       ELSE /\ workers' = [workers EXCEPT ![w].connected = FALSE]
            /\ UNCHANGED windowVars
    /\ unix' = unix
    /\ UNCHANGED protocolVars

\* Mutant of SendPingExcept: the failed write leaves the worker connected
SendPingExceptKeepsFlag(w) == workers

\* The except branch of send_ping: self.connected = False, before
\* connection_lost is emitted
SendPingExcept(w) == [workers EXCEPT ![w].connected = FALSE]

\* BleWorker.send_ping up to its await: nothing when the worker is not
\* connected, else the wrapped payload is written; on a lost link the write
\* raises and the except branch emits connection_lost
SendPingStart(i) ==
    LET w == tasks[i].w
        p == WrapCommand(PingPayload(tasks[i].tab, unix))
    IN
    /\ tasks[i].op = "send_ping"
    /\ tasks[i].pc = "start"
    /\ IF ~workers[w].connected
       THEN /\ tasks' = Without(i)
            /\ UNCHANGED <<windowVars, workers>>
       ELSE IF workers[w].link
       THEN /\ workers' = WriteGatt(w, "ping", tasks[i].tab, unix, p.bytes)
            /\ tasks' = [tasks EXCEPT ![i].pc = "writing"]
            /\ UNCHANGED windowVars
       ELSE /\ reconnect_timers < MaxTimers
            /\ workers' = SendPingExcept(w)
            /\ tasks' = Without(i)
            /\ OnConnectionLost
    /\ unix' = unix
    /\ UNCHANGED protocolVars

\* The write of send_ping returns, or raises (a dropped link, a write the
\* transport refuses) and the except branch emits connection_lost
SendPingDone(i) ==
    LET w == tasks[i].w IN
    /\ tasks[i].op = "send_ping"
    /\ tasks[i].pc = "writing"
    /\ tasks' = Without(i)
    /\ \E ok \in BOOLEAN :
        IF ok
        THEN UNCHANGED <<windowVars, workers>>
        ELSE /\ reconnect_timers < MaxTimers
             /\ workers' = SendPingExcept(w)
             /\ OnConnectionLost
    /\ unix' = unix
    /\ UNCHANGED protocolVars

\* The tab bar: currentChanged and MainWindow._on_tab_changed
OnTabChanged ==
    /\ Len(tasks) < MaxTasks
    /\ current_tab' = 1 - current_tab
    /\ tasks' = SendPing(connected, 1 - current_tab)
    /\ UNCHANGED <<ble_worker, connected, connect_btn, disconnect_btn,
                   ping_timer, reconnect_attempts, reconnect_timers,
                   workers, unix>>
    /\ UNCHANGED protocolVars

\* ping_timer.timeout: MainWindow._send_ping
PingTimeout ==
    /\ ping_timer
    /\ Len(tasks) < MaxTasks
    /\ tasks' = SendPing(connected, current_tab)
    /\ UNCHANGED <<windowVars, workers, unix>>
    /\ UNCHANGED protocolVars

\* Mutant of max_reconnect_attempts: one attempt more
FourReconnectAttempts == 3 + 1

\* self._max_reconnect_attempts = 3
max_reconnect_attempts == 3

\* A QTimer.singleShot fires: MainWindow._attempt_reconnect
AttemptReconnect ==
    /\ reconnect_timers > 0
    /\ Len(tasks) < MaxTasks
    /\ reconnect_timers' = reconnect_timers - 1
    /\ IF connected \/ ble_worker = 0
       THEN UNCHANGED <<reconnect_attempts, tasks>>
       ELSE /\ reconnect_attempts' = reconnect_attempts + 1
            /\ tasks' =
                 IF reconnect_attempts + 1 > max_reconnect_attempts THEN tasks
                 ELSE Append(tasks, [op |-> "do_reconnect", w |-> ble_worker,
                                     tab |-> 0, view |-> 0, pc |-> "start"])
    /\ UNCHANGED <<ble_worker, connected, connect_btn, disconnect_btn,
                   current_tab, ping_timer, workers, unix>>
    /\ UNCHANGED protocolVars

\* MainWindow._do_reconnect: after the sleep connect(device_address) raises
\* TypeError, connect() taking no argument, and the except branch arms the
\* next timer
DoReconnect(i) ==
    /\ tasks[i].op = "do_reconnect"
    /\ reconnect_timers < MaxTimers
    /\ tasks' = Without(i)
    /\ reconnect_timers' = reconnect_timers + 1
    /\ UNCHANGED <<ble_worker, connected, connect_btn, disconnect_btn,
                   current_tab, ping_timer, reconnect_attempts, workers,
                   unix>>
    /\ UNCHANGED protocolVars

\* A second passes
Tick ==
    /\ unix < UnixStart + MaxTicks
    /\ unix' = unix + 1
    /\ UNCHANGED <<windowVars, tasks, workers>>
    /\ UNCHANGED protocolVars

InitApp ==
    /\ DecoderInit
    /\ AppInit
    /\ ScriptInit
    /\ CommandInit

NextApp ==
    \/ OnConnect
    \/ \E w \in 1..Len(workers) : ClientConnect(w)
    \/ \E w \in 1..Len(workers) : StartNotify(w)
    \/ \E w \in 1..Len(workers) : HelloWritten(w)
    \/ \E w \in 1..Len(workers) : Slept(w)
    \/ \E w \in 1..Len(workers) : DoConnect(w)
    \/ \E w \in 1..Len(workers) : LinkLost(w)
    \/ OnDisconnect
    \/ \E i \in 1..Len(tasks) : Disconnect(i)
    \/ \E i \in 1..Len(tasks) : SendPingStart(i)
    \/ \E i \in 1..Len(tasks) : SendPingDone(i)
    \/ OnTabChanged
    \/ PingTimeout
    \/ AttemptReconnect
    \/ \E i \in 1..Len(tasks) : DoReconnect(i)
    \/ Tick

SpecApp == InitApp /\ [][NextApp]_vars

\* The bytes send_ping owes for tab and the time t: 0xFF, the XOR byte, 0xEE,
\* Sum32 big-endian, the payload 12 tab t3 t2 t1 t0 and the length 14
Framed(tab, t) ==
    LET pl    == <<18, tab, t \div 16777216, (t \div 65536) % 256,
                   (t \div 256) % 256, t % 256>>
        inner == <<238>> \o Sum32BE(pl) \o pl
    IN  <<255, XorByte(inner)>> \o inner \o <<14>>

\* C12: every ping written is wrap([0x12, tab, t3, t2, t1, t0]) with t3..t0
\* the Unix time of the call, most significant byte first, and every
\* send_ping the window schedules carries tab 1 exactly when the selected tab
\* is the spectrum view and 0 when it is the count-rate view.
C12_PingCarriesTabAndTime ==
    /\ \A w \in 1..Len(workers) :
        workers[w].tx.op = "ping" =>
            workers[w].tx.bytes = Framed(workers[w].tx.tab, workers[w].tx.at)
    /\ \A i \in 1..Len(tasks) :
        tasks[i].op = "send_ping" =>
            /\ tasks[i].tab = 1 <=> TabTitles[tasks[i].view + 1] = "Spectrum"
            /\ tasks[i].tab = 0 <=> TabTitles[tasks[i].view + 1] = "CPS / Dose"

\* A ping for the count-rate view written after the clock's byte carry
C12_Witness ==
    \E w \in 1..Len(workers) :
        /\ workers[w].tx.op = "ping"
        /\ workers[w].tx.tab = 0
        /\ workers[w].tx.at = UnixStart + 1

\* C11: on every connection the HELLO literal is written only after
\* start_notify succeeded, exactly twice once connect() has returned, and no
\* ping goes out on it before connect()'s second write has returned.
C11_HandshakeBeforeAnyPing ==
    \A w \in 1..Len(workers) :
        /\ workers[w].tx.op = "hello" => workers[w].tx.bytes = Hello
        /\ workers[w].hellos > 0 => workers[w].notify # "never"
        /\ workers[w].hellos <= 2
        /\ workers[w].pc = "done" => workers[w].hellos = 2
        /\ workers[w].tx.op = "ping" => workers[w].tx.pc = "done"

-----------------------------------------------------------------------------
(* Single-chunk frames between the chunks of a spectrum frame *)

\* The status and count-rate frames of Chunks that yield a record when
\* parsed
ValidSingles == {B6, B10, B11, C13, C18}

\* A valid status or count-rate frame delivered as one chunk is parsed alone
\* and yields its record, and nothing is added to the spectrum buffer
C32Step ==
    chunk' \in ValidSingles =>
        /\ parsed' = <<chunk'>>
        /\ emitted' = ParseFrame(chunk').pkt
        /\ Len(emitted') = 1
        /\ ~Logged("ADDED")'

\* C32: a valid status or count-rate frame delivered as one chunk yields its
\* record whether the reassembler is Idle or Assembling, and is not appended
\* to the spectrum buffer.
C32_SingleChunkFrameAlwaysEmitted == [][C32Step]_vars

-----------------------------------------------------------------------------
(* Automatic reconnection *)

\* This step schedules a _do_reconnect coroutine: a reconnect attempt starts
ReconnectStarted ==
    /\ Len(tasks') = Len(tasks) + 1
    /\ tasks'[Len(tasks')].op = "do_reconnect"

\* This step runs _on_connection_lost: the counter is reset and a timer armed
ConnectionLostHandled ==
    /\ reconnect_attempts' = 0
    /\ reconnect_timers' = reconnect_timers + 1
    /\ ~connected'
    /\ ~ping_timer'

\* An attempt starts only while the window is not connected and is at most
\* the third the counter has counted; the counter only grows by one or is reset
\* by a connection loss; once it has counted three no attempt starts
C33Step ==
    /\ ReconnectStarted =>
          /\ ~connected
          /\ reconnect_attempts' = reconnect_attempts + 1
          /\ reconnect_attempts' <= 3
    /\ reconnect_attempts' # reconnect_attempts =>
          \/ reconnect_attempts' = reconnect_attempts + 1
          \/ ConnectionLostHandled
    /\ reconnect_attempts >= 3 => ~ReconnectStarted

\* C33: after a connection loss at most 3 automatic reconnect attempts are
\* started; once the third has failed and the limit was found exceeded no
\* further attempt is scheduled until another connection loss; no attempt is
\* started while the window is connected.
C33_AtMostThreeReconnects == [][C33Step]_vars

\* C33 witness: three attempts have failed and the fourth timer found the
\* limit exceeded: nothing is pending
C33_Witness ==
    /\ reconnect_attempts = 4
    /\ reconnect_timers = 0
    /\ tasks = <<>>
    /\ ~connected

\* This step runs a _do_reconnect coroutine to its end
ReconnectRan ==
    \E i \in 1..Len(tasks) :
        tasks[i].op = "do_reconnect" /\ tasks' = Without(i)

\* A reconnect attempt leaves the window connected, the counter at 0 and the
\* ping timer running
C34Step ==
    ReconnectRan =>
        /\ connected'
        /\ reconnect_attempts' = 0
        /\ ping_timer'

\* C34: an automatic reconnect attempt, the transport connect being able to
\* succeed, re-establishes the session: MainWindow.connected becomes True,
\* the attempt counter is reset to 0 and the ping timer is restarted.
C34_ReconnectRestoresSession == [][C34Step]_vars

-----------------------------------------------------------------------------
(* The Disconnect button and automatic reconnection *)

\* This step runs the BleWorker.disconnect coroutine the Disconnect button
\* scheduled
DisconnectRan ==
    \E i \in 1..Len(tasks) :
        tasks[i].op = "disconnect" /\ tasks' = Without(i)

\* The disconnect the user asked for arms no reconnect timer and starts no
\* reconnect attempt
C35Step ==
    DisconnectRan =>
        /\ reconnect_timers' = reconnect_timers
        /\ ~ReconnectStarted

\* C35: a disconnect the user asked for with the Disconnect button, the
\* transport running the worker's disconnected callback, never schedules an
\* automatic reconnect.
C35_UserDisconnectNeverReconnects == [][C35Step]_vars

-----------------------------------------------------------------------------
(* send_ping on a worker that is not connected, and a ping write that fails *)

\* Worker w has a failed ping write behind it: its flag is down while its
\* link is up, which neither a lost link nor disconnect() leaves behind
PingWriteFailed(w) ==
    /\ workers[w].tx.op = "ping"
    /\ workers[w].link
    /\ ~workers[w].connected

\* Worker w dropped the window's first ping: connect() has returned, the
\* flag is down and no ping was ever written
PingDropped(w) ==
    /\ workers[w].pc = "done"
    /\ workers[w].tx.op = "hello"
    /\ ~workers[w].connected

\* A ping is written only by a worker whose flag is up; a step that ends a
\* send_ping coroutine either changes nothing but the coroutine or leaves
\* the worker's flag down and runs the slot of connection_lost once; a
\* send_ping that starts on a worker whose flag is down changes nothing
C36Step ==
    /\ \A w \in 1..Len(workers) :
          (workers'[w].tx # workers[w].tx /\ workers'[w].tx.op = "ping")
              => workers[w].connected
    /\ \A i \in 1..Len(tasks) :
          (tasks[i].op = "send_ping" /\ tasks' = Without(i)) =>
              \/ UNCHANGED <<windowVars, workers>>
              \/ /\ workers' = [workers EXCEPT ![tasks[i].w].connected = FALSE]
                 /\ ConnectionLostHandled
    /\ \A i \in 1..Len(tasks) :
          (/\ tasks[i].op = "send_ping"
           /\ tasks[i].pc = "start"
           /\ ~workers[tasks[i].w].connected
           /\ tasks' = Without(i)) => UNCHANGED <<windowVars, workers>>

\* C36: no ping is written to the transport while the worker's connected
\* flag is False, send_ping then writing nothing and emitting nothing; a ping
\* write that fails sets the flag to False and emits connection_lost exactly
\* once, and the coroutine ends without raising.
C36_PingOnlyWhileConnected == [][C36Step]_vars

\* C36 witness: one worker has a failed ping write behind it, and another
\* dropped a ping because its flag was down
C36_Witness ==
    \E v, w \in 1..Len(workers) :
        /\ PingWriteFailed(v)
        /\ PingDropped(w)
        /\ tasks = <<>>

-----------------------------------------------------------------------------
(* The handshake literal of connect() against _wrap_command *)

\* The timestamp 0x6417208F of the handshake literal
HelloTime == 100 * 16777216 + 23 * 65536 + 32 * 256 + 143

\* C37: the 14-byte handshake literal of connect() is what _wrap_command
\* returns for the payload 12 00 64 17 20 8F, the ping payload of tab 0 and
\* the timestamp 0x6417208F: Sum32 is 0x17648F32, XorByte is 0xEE and the
\* trailing byte is 14.
C37_HelloIsWrappedPing ==
    (payload = HelloPayload /\ (Wrapped \/ packet.raised)) =>
        /\ packet = [raised |-> FALSE, bytes |-> Hello]
        /\ Len(Hello) = 14
        /\ payload = PingPayload(0, HelloTime)
        /\ Crc1(payload) = [hi |-> 23 * 256 + 100, lo |-> 143 * 256 + 50]
        /\ Crc2(<<238>> \o ToBytes4Big(Crc1(payload)) \o payload) = 238
        /\ packet.bytes[14] = 14

\* C37 witness: the handshake payload was wrapped into the literal
C37_Witness ==
    /\ payload = HelloPayload
    /\ Wrapped
    /\ packet.bytes = Hello

====
